---- MODULE Spec2Model ----
(***************************************************************************)
(* State-machine model of the poker scenario analyzer's test bots:         *)
(*   - score_omaha_hand, OmahaPlayer and run_omaha_test (OmahaTestRunner)  *)
(*   - PlayerTrajectory.compute_metrics (TrajectoryAnalyzer)               *)
(*   - calculate_sample_size_needed, analyze_results (StyleBasedTestRunner)*)
(*   - HandDataCollector (HandDataCapture)                                 *)
(* Each subsystem has its own specification; the variables of the other    *)
(* subsystems stay at their initial value in it.                           *)
(***************************************************************************)
EXTENDS Integers, Sequences, FiniteSets, TLC

VARIABLES
    hole,          \* score spec: the hole cards handed to score_omaha_hand
    scoreOut,      \* score spec: the value score_omaha_hand returned (x ScoreScale)
    player,        \* decision specs: the OmahaPlayer under test
    pending,       \* decision spec: the decision point the engine presents, or NoPending
    last,          \* decision spec: the last call of decide (arguments and result)
    twin,          \* fallback spec: the same player built with fast_mode=True
    oracleLog,     \* fallback spec: what the oracle-mode player returned this hand
    fastLog,       \* fallback spec: what the fast-mode player returned this hand
    timeoutsOnly,  \* fallback spec: every advisor call of this hand timed out
    traj,          \* trajectory spec: the PlayerTrajectory of one player
    trajBot,       \* trajectory spec: the TrajectoryBot feeding it
    trajRun,       \* trajectory spec: where the session stands
    statPlayers,   \* statistics spec: the OmahaPlayers of a run_omaha_test session
    stylePlayer,   \* statistics spec: a StyleBasedPlayer of a run_style_test session
    statsOut,      \* statistics spec: the results reported for the session
    collector,     \* collector spec: the HandDataCollector
    roster,        \* collector spec: the players of the session
    summary,       \* collector spec: the SessionSummary generated, or NoSummary
    sample,        \* sample-size spec: the arguments of the call
    sampleOut,     \* sample-size spec: what the call returned, or NoReport
    run,           \* run spec: the locals of run_omaha_test
    blindsLog,     \* run spec: the blinds of every hand started so far
    session,       \* session spec: where run_comprehensive_test stands
    handTally,     \* hand spec: the history of the player's current hand
    styleTable     \* style table spec: the players and chips of run_style_test

scoreVars == <<hole, scoreOut>>
decideVars == <<player, pending, last>>
fallbackVars == <<twin, oracleLog, fastLog, timeoutsOnly>>
trajVars == <<traj, trajBot, trajRun>>
statsVars == <<statPlayers, stylePlayer, statsOut>>
collVars == <<collector, roster, summary>>
sampleVars == <<sample, sampleOut>>
runVars == <<run, blindsLog>>
sessionVars == <<session>>
vpipVars == <<handTally>>
tableVars == <<styleTable>>
vars == <<scoreVars, decideVars, fallbackVars, trajVars, statsVars, collVars,
          sampleVars, runVars, sessionVars, vpipVars, tableVars>>

\* the variables a specification leaves at their initial value
notScore == <<decideVars, fallbackVars, trajVars, statsVars, collVars, sampleVars, runVars,
            sessionVars, vpipVars, tableVars>>
notDecide == <<scoreVars, fallbackVars, trajVars, statsVars, collVars, sampleVars, runVars,
            sessionVars, vpipVars, tableVars>>
notFallback == <<scoreVars, pending, last, trajVars, statsVars, collVars, sampleVars, runVars,
            sessionVars, vpipVars, tableVars>>
notTraj == <<scoreVars, decideVars, fallbackVars, statsVars, collVars, sampleVars, runVars,
            sessionVars, vpipVars, tableVars>>
notStats == <<scoreVars, decideVars, fallbackVars, trajVars, collVars, sampleVars, runVars,
            sessionVars, vpipVars, tableVars>>
notSession == <<scoreVars, decideVars, fallbackVars, trajVars, statsVars, sampleVars, runVars,
               vpipVars, tableVars>>
notVpip == <<scoreVars, pending, last, fallbackVars, trajVars, statsVars, collVars,
            sampleVars, runVars, sessionVars, tableVars>>
notTable == <<scoreVars, decideVars, fallbackVars, trajVars, statsVars, collVars,
             sampleVars, runVars, sessionVars, vpipVars>>
notColl == <<scoreVars, decideVars, fallbackVars, trajVars, statsVars, sampleVars, runVars,
            sessionVars, vpipVars, tableVars>>
notRun == <<scoreVars, decideVars, fallbackVars, trajVars, statsVars, collVars, sampleVars,
            sessionVars, vpipVars, tableVars>>
notSample == <<scoreVars, decideVars, fallbackVars, trajVars, statsVars, collVars, runVars,
            sessionVars, vpipVars, tableVars>>

(***************************************************************************)
(* Generic helpers                                                         *)
(***************************************************************************)
Max2(a, b) == IF a >= b THEN a ELSE b
Min2(a, b) == IF a <= b THEN a ELSE b

SetMax(S) == CHOOSE x \in S : \A y \in S : y <= x
SetMin(S) == CHOOSE x \in S : \A y \in S : x <= y

RECURSIVE SetSum(_, _)
\* sum of f[x] over the finite set S
SetSum(f, S) ==
    IF S = {} THEN 0
    ELSE LET x == CHOOSE y \in S : TRUE IN f[x] + SetSum(f, S \ {x})

RECURSIVE SeqSum(_)
SeqSum(s) == IF s = <<>> THEN 0 ELSE Head(s) + SeqSum(Tail(s))

(***************************************************************************)
(* CARD UTILS (OmahaTestRunner.py)                                         *)
(***************************************************************************)
RankChars == <<"2", "3", "4", "5", "6", "7", "8", "9", "T", "J", "Q", "K", "A">>
SuitChars == <<"c", "d", "h", "s">>

RANK_VALUES ==
    ("2" :> 2) @@ ("3" :> 3) @@ ("4" :> 4) @@ ("5" :> 5) @@ ("6" :> 6) @@
    ("7" :> 7) @@ ("8" :> 8) @@ ("9" :> 9) @@ ("T" :> 10) @@ ("J" :> 11) @@
    ("Q" :> 12) @@ ("K" :> 13) @@ ("A" :> 14) @@ ("10" :> 10)

SUIT_CONVERT == ("c" :> "c") @@ ("d" :> "d") @@ ("h" :> "h") @@ ("s" :> "s")

\* RANK_VALUES.get(str(card.rank), 7)
card_rank_num(card) ==
    IF card.rank \in DOMAIN RANK_VALUES THEN RANK_VALUES[card.rank] ELSE 7

\* SUIT_CONVERT.get(str(card.suit), 'c')
card_suit_char(card) ==
    IF card.suit \in DOMAIN SUIT_CONVERT THEN SUIT_CONVERT[card.suit] ELSE "c"

(***************************************************************************)
(* Bounds of the card universe.  The deck holds the deuce and the          *)
(* NumRanks - 1 highest ranks, in all four suits.                          *)
(***************************************************************************)
NumRanks == 5

\* largest number of hole cards of a variant (PLO6)
HoleMax == 6

DeckRanks == {RankChars[1]} \cup {RankChars[i] : i \in (13 - (NumRanks - 2))..13}

Deck == [rank : DeckRanks, suit : {SuitChars[i] : i \in 1..4}]

RankIndex(r) == CHOOSE i \in 1..13 : RankChars[i] = r
SuitIndex(s) == CHOOSE i \in 1..4 : SuitChars[i] = s
\* position of a card in deck order
CardIndex(card) == 4 * RankIndex(card.rank) + SuitIndex(card.suit)

(***************************************************************************)
(* HAND SCORING.  score_omaha_hand works in floating point; the model      *)
(* keeps every score multiplied by ScoreScale = 840, which makes all the   *)
(* divisions of the function (by 14, by the number of cards 1..6, by the   *)
(* number of gaps 1..5) exact in the integers.                             *)
(***************************************************************************)
ScoreScale == 14 * 60

\* number of cards of the hand with the given rank / suit (rc, sc)
RankCount(cards, r) == Cardinality({c \in cards : card_rank_num(c) = r})
SuitCount(cards, s) == Cardinality({c \in cards : card_suit_char(c) = s})

RankSet(cards) == {card_rank_num(c) : c \in cards}
SuitSet(cards) == {card_suit_char(c) : c \in cards}

\* High card value (0-25): (avg_rank / 14) * 25
HighCardScore(cards) ==
    LET n == Cardinality(cards)
        total == SetSum([c \in cards |-> card_rank_num(c)], cards)
    IN  ((25 * ScoreScale) \div (14 * n)) * total

\* Pairs (0-20): 10 + (max(pairs) / 14) * 10 when a rank repeats
PairScore(cards) ==
    LET pairs == {r \in RankSet(cards) : RankCount(cards, r) >= 2}
    IN  IF pairs # {}
        THEN 10 * ScoreScale + ((10 * ScoreScale) \div 14) * SetMax(pairs)
        ELSE 0

\* Suitedness (0-15)
SuitednessScore(cards) ==
    LET counts == {SuitCount(cards, s) : s \in SuitSet(cards)}
        suited_groups == Cardinality({s \in SuitSet(cards) : SuitCount(cards, s) >= 2})
    IN  IF suited_groups >= 2 THEN 15 * ScoreScale
        ELSE IF SetMax(counts) >= 3 THEN 12 * ScoreScale
        ELSE IF SetMax(counts) >= 2 THEN 8 * ScoreScale
        ELSE 0

\* Connectivity (0-20): max(0, 20 - (avg_gap - 1) * 5); the gaps between the
\* sorted distinct ranks sum to max - min
ConnectivityScore(cards) ==
    LET uniq == RankSet(cards)
        ngaps == Cardinality(uniq) - 1
    IN  IF Cardinality(uniq) >= 2
        THEN Max2(0, 20 * ScoreScale
                     - (((5 * ScoreScale) \div ngaps) * (SetMax(uniq) - SetMin(uniq))
                        - 5 * ScoreScale))
        ELSE 0

\* Nut potential (0-20)
NutScoreSwapped(cards) ==
    LET has_ace == 14 \in RankSet(cards)
        suited_ace == \E c \in cards : \E d \in cards :
                          /\ card_rank_num(c) = 14
                          /\ d # c
                          /\ card_suit_char(c) = card_suit_char(d)
        broadway == Cardinality({c \in cards : card_rank_num(c) >= 10})
    IN  (IF suited_ace THEN 8 * ScoreScale
         ELSE IF has_ace THEN 15 * ScoreScale
         ELSE 0)
        + (IF broadway >= 3 THEN 5 * ScoreScale ELSE 0)

NutScore(cards) ==
    LET has_ace == 14 \in RankSet(cards)
        suited_ace == \E c \in cards : \E d \in cards :
                          /\ card_rank_num(c) = 14
                          /\ d # c
                          /\ card_suit_char(c) = card_suit_char(d)
        broadway == Cardinality({c \in cards : card_rank_num(c) >= 10})
    IN  (IF suited_ace THEN 15 * ScoreScale
         ELSE IF has_ace THEN 8 * ScoreScale
         ELSE 0)
        + (IF broadway >= 3 THEN 5 * ScoreScale ELSE 0)

\* the function without its guard for the empty hand
score_omaha_hand_unguarded(hole_cards) ==
    IF hole_cards = {} THEN 0
    ELSE Min2(100 * ScoreScale,
              Max2(0, HighCardScore(hole_cards) + PairScore(hole_cards)
                      + SuitednessScore(hole_cards) + ConnectivityScore(hole_cards)
                      + NutScore(hole_cards)))

score_omaha_hand(hole_cards) ==
    IF hole_cards = {} THEN 25 * ScoreScale
    ELSE Min2(100 * ScoreScale,
              Max2(0, HighCardScore(hole_cards) + PairScore(hole_cards)
                      + SuitednessScore(hole_cards) + ConnectivityScore(hole_cards)
                      + NutScore(hole_cards)))

(***************************************************************************)
(* STYLE DEFINITIONS: the built-in tables of OmahaTestRunner.py.  Rates    *)
(* are in thousandths, raise_sizing in hundredths, thresholds in tenths.   *)
(***************************************************************************)
StyleIds == {"nit", "rock", "reg", "tag", "lag", "fish"}
Variants == {4, 5, 6}

STYLE_THRESHOLDS ==
    [s \in StyleIds |->
        CASE s = "nit"  -> (4 :> 550) @@ (5 :> 655) @@ (6 :> 730)
          [] s = "rock" -> (4 :> 550) @@ (5 :> 655) @@ (6 :> 730)
          [] s = "reg"  -> (4 :> 536) @@ (5 :> 639) @@ (6 :> 713)
          [] s = "tag"  -> (4 :> 520) @@ (5 :> 620) @@ (6 :> 695)
          [] s = "lag"  -> (4 :> 505) @@ (5 :> 610) @@ (6 :> 685)
          [] s = "fish" -> (4 :> 465) @@ (5 :> 567) @@ (6 :> 643)]

STYLES ==
    [s \in StyleIds |->
        CASE s = "nit"  -> [pfr_ratio |-> 700, aggression |-> 450, cbet |-> 500,
                            fold_cbet |-> 550, raise_sizing |-> 50, postflop_agg |-> 350]
          [] s = "rock" -> [pfr_ratio |-> 450, aggression |-> 250, cbet |-> 450,
                            fold_cbet |-> 550, raise_sizing |-> 50, postflop_agg |-> 150]
          [] s = "reg"  -> [pfr_ratio |-> 750, aggression |-> 600, cbet |-> 580,
                            fold_cbet |-> 420, raise_sizing |-> 75, postflop_agg |-> 300]
          [] s = "tag"  -> [pfr_ratio |-> 720, aggression |-> 650, cbet |-> 620,
                            fold_cbet |-> 380, raise_sizing |-> 75, postflop_agg |-> 350]
          [] s = "lag"  -> [pfr_ratio |-> 650, aggression |-> 750, cbet |-> 650,
                            fold_cbet |-> 300, raise_sizing |-> 100, postflop_agg |-> 400]
          [] s = "fish" -> [pfr_ratio |-> 250, aggression |-> 200, cbet |-> 400,
                            fold_cbet |-> 250, raise_sizing |-> 50, postflop_agg |-> 100]]

POS_ADJ ==
    ("BTN" :> 12) @@ ("CO" :> 6) @@ ("HJ" :> 2) @@ ("MP" :> -3) @@ ("EP" :> -8) @@
    ("UTG" :> -12) @@ ("SB" :> -5) @@ ("BB" :> 0)

STREET_NAMES == (0 :> "preflop") @@ (1 :> "flop") @@ (2 :> "turn") @@ (3 :> "river")

ActionKeys == {"fold", "call", "raise"}
StreetKeys == {"preflop", "flop", "turn", "river"}

(***************************************************************************)
(* PLAYER (class OmahaPlayer)                                              *)
(***************************************************************************)
\* __init__ followed by reset_stats
OmahaPlayerInit(idx, style, variant, fast_mode) ==
    [idx |-> idx, style |-> style, variant |-> variant, fast_mode |-> fast_mode,
     threshold |-> STYLE_THRESHOLDS[style][variant],
     hands |-> 0, wins |-> 0, profit |-> 0,
     advisor_calls |-> 0, api_errors |-> 0,
     actions |-> [k \in ActionKeys |-> 0],
     streets |-> [k \in StreetKeys |-> 0],
     per_hand |-> <<>>,
     vpip_hands |-> 0, vpip_this_hand |-> FALSE]

\* the relative position index of OmahaPlayer.position
rotated_idx(idx, num_p, hand_num) == (idx - hand_num) % num_p

\* OmahaPlayer.position
position(idx, num_p, hand_num) ==
    LET pos == IF num_p <= 3 THEN <<"BTN", "SB", "BB">>
               ELSE IF num_p <= 6 THEN <<"UTG", "MP", "CO", "BTN", "SB", "BB">>
               ELSE <<"UTG", "UTG", "EP", "MP", "HJ", "CO", "BTN", "SB", "BB">>
    IN  pos[(rotated_idx(idx, num_p, hand_num) % Len(pos)) + 1]

\* OmahaPlayer.new_hand
new_hand(p) == [p EXCEPT !.vpip_this_hand = FALSE]

\* self.actions[key] += 1
CountAction(p, key) == [p EXCEPT !.actions[key] = @ + 1]

\* What a decision method hands back: the player after it, the integer it
\* returns (-1 is the engine's fold), the actions key counted on the
\* returning path, the number of random.random() draws consumed, and whether
\* it ended by raising an exception instead of returning.
Returned(p, ret, act, used) ==
    [p |-> p, ret |-> ret, act |-> act, used |-> used, exc |-> FALSE]
Raised(p, used) ==
    [p |-> p, ret |-> 0, act |-> "none", used |-> used, exc |-> TRUE]

\* a clamp without the lower bound
ClampRaiseBelowMax(amount, mnr, mxr) == Min2(mxr, amount)

\* max(mnr, min(mxr, amount))
ClampRaise(amount, mnr, mxr) == Max2(mnr, Min2(mxr, amount))

\* a vpip mark that counts the hand at every qualifying decision
MarkVpipEveryTime(p) == [p EXCEPT !.vpip_hands = @ + 1, !.vpip_this_hand = TRUE]

\* if not self._vpip_this_hand: self.vpip_hands += 1; self._vpip_this_hand = True
MarkVpip(p) ==
    IF ~p.vpip_this_hand
    THEN [p EXCEPT !.vpip_hands = @ + 1, !.vpip_this_hand = TRUE]
    ELSE p

\* score + POS_ADJ.get(pos, 0) of _preflop, in units of 1/ScoreScale
AdjustedScore(p, hole_cards, num_p, hand_num) ==
    score_omaha_hand(hole_cards) + POS_ADJ[position(p.idx, num_p, hand_num)] * ScoreScale

\* self.threshold in the same units
ScaledThreshold(p) == p.threshold * (ScoreScale \div 10)

\* a _preflop without the marginal call: above the threshold it calls, below
\* it checks for free and folds to any bet
PreflopWithoutMargin(p, hole_cards, call, pot, stk, mnr, mxr, num_p, hand_num, rnd) ==
    IF AdjustedScore(p, hole_cards, num_p, hand_num) >= ScaledThreshold(p)
    THEN Returned(CountAction(MarkVpip(p), "call"), call, "call", 1)
    ELSE IF call = 0
    THEN Returned(CountAction(p, "call"), 0, "call", 0)
    ELSE Returned(CountAction(p, "fold"), -1, "fold", 0)

\* OmahaPlayer._preflop; rnd is the stream of random.random() draws, in
\* thousandths
Preflop(p, hole_cards, call, pot, stk, mnr, mxr, num_p, hand_num, rnd) ==
    LET score == score_omaha_hand(hole_cards)
        pos == position(p.idx, num_p, hand_num)
        adj == score + POS_ADJ[pos] * ScoreScale
        thresh == p.threshold * (ScoreScale \div 10)
        pfr == STYLES[p.style].pfr_ratio
        sizing == STYLES[p.style].raise_sizing
        margin == IF p.style \in {"lag", "fish"} THEN 5
                  ELSE IF p.style \in {"tag", "reg"} THEN 3 ELSE 0
        max_call_pct == CASE p.style = "fish" -> 8
                          [] p.style = "lag" -> 5
                          [] OTHER -> 3
    IN  IF adj >= thresh
        THEN LET p1 == MarkVpip(p) IN
             IF rnd[1] < pfr /\ mnr <= mxr
             THEN Returned(CountAction(p1, "raise"),
                           ClampRaise((pot * sizing) \div 100, mnr, mxr), "raise", 1)
             ELSE Returned(CountAction(p1, "call"), call, "call", 1)
        ELSE IF call = 0
        THEN Returned(CountAction(p, "call"), 0, "call", 0)
        ELSE IF /\ margin > 0
                /\ adj >= thresh - margin * ScoreScale
                /\ 100 * call <= stk * max_call_pct
        THEN Returned(CountAction(MarkVpip(p), "call"), call, "call", 0)
        ELSE Returned(CountAction(p, "fold"), -1, "fold", 0)

\* a _heuristic that raises without asking whether a raise is legal
HeuristicRaisesUnchecked(p, call, pot, stk, mnr, mxr, rnd) ==
    IF call = 0
    THEN IF rnd[1] < STYLES[p.style].cbet
         THEN Returned(CountAction(p, "raise"),
                       Max2(mnr, Min2((pot * (5000 + STYLES[p.style].raise_sizing * 25))
                                          \div 10000, mxr)), "raise", 1)
         ELSE Returned(CountAction(p, "call"), 0, "call", 1)
    ELSE IF rnd[1] < STYLES[p.style].fold_cbet
    THEN Returned(CountAction(p, "fold"), -1, "fold", 1)
    ELSE IF rnd[2] < STYLES[p.style].postflop_agg
    THEN Returned(CountAction(p, "raise"),
                  Max2(mnr, Min2((pot * 75) \div 100, mxr)), "raise", 2)
    ELSE Returned(CountAction(p, "call"), call, "call", 2)

\* OmahaPlayer._heuristic
Heuristic(p, call, pot, stk, mnr, mxr, rnd) ==
    LET cbet == STYLES[p.style].cbet
        fold_cbet == STYLES[p.style].fold_cbet
        postflop_agg == STYLES[p.style].postflop_agg
        \* 0.5 + raise_sizing * 0.25, in ten-thousandths
        sizing == 5000 + STYLES[p.style].raise_sizing * 25
    IN  IF call = 0
        THEN IF rnd[1] < cbet /\ mnr <= mxr
             THEN Returned(CountAction(p, "raise"),
                           Max2(mnr, Min2((pot * sizing) \div 10000, mxr)), "raise", 1)
             ELSE Returned(CountAction(p, "call"), 0, "call", 1)
        ELSE IF rnd[1] < fold_cbet
        THEN Returned(CountAction(p, "fold"), -1, "fold", 1)
        ELSE IF rnd[2] < postflop_agg /\ mnr <= mxr
        THEN Returned(CountAction(p, "raise"),
                      Max2(mnr, Min2((pot * 75) \div 100, mxr)), "raise", 2)
        ELSE Returned(CountAction(p, "call"), call, "call", 2)

(***************************************************************************)
(* The sizing hint of a recommendation (rec.get("sizing", {})):            *)
(*   kind "none"     no hint: the key is missing, or the hint is empty     *)
(*   kind "int"      {"optimal": n}                                        *)
(*   kind "no_opt"   a non-empty object without "optimal"                  *)
(*   kind "bad_opt"  {"optimal": x} with x not convertible by int()        *)
(*   kind "not_obj"  a non-empty value that is not an object               *)
(***************************************************************************)
\* the raise returned as the advisor sized it, without the clamp
RaiseWithSizingUnclamped(p, sizing, mnr, mxr, used) ==
    IF sizing.kind = "not_obj" THEN Raised(p, used)
    ELSE IF sizing.kind = "bad_opt" THEN Raised(CountAction(p, "raise"), used)
    ELSE LET opt == IF sizing.kind = "int" THEN sizing.optimal ELSE mnr
         IN  Returned(CountAction(p, "raise"), opt, "raise", used)

\* opt = sizing.get("optimal", mnr) if sizing else mnr; then int(opt) after
\* the raise was counted
RaiseWithSizing(p, sizing, mnr, mxr, used) ==
    IF sizing.kind = "not_obj" THEN Raised(p, used)
    ELSE IF sizing.kind = "bad_opt" THEN Raised(CountAction(p, "raise"), used)
    ELSE LET opt == IF sizing.kind = "int" THEN sizing.optimal ELSE mnr
         IN  Returned(CountAction(p, "raise"), Max2(mnr, Min2(opt, mxr)), "raise", used)

\* OmahaPlayer._style_action
StyleAction(p, action, sizing, call, pot, stk, mnr, mxr, rnd) ==
    LET agg == STYLES[p.style].aggression IN
    IF action = "fold"
    THEN IF p.style = "lag" /\ 10 * call <= 3 * pot
         THEN IF rnd[1] < 300
              THEN Returned(CountAction(p, "call"), call, "call", 1)
              ELSE Returned(CountAction(p, "fold"), -1, "fold", 1)
         ELSE Returned(CountAction(p, "fold"), -1, "fold", 0)
    ELSE IF action \in {"call", "check"}
    THEN IF 10 * rnd[1] < agg * 3 /\ mnr <= mxr
         THEN RaiseWithSizing(p, sizing, mnr, mxr, 1)
         ELSE Returned(CountAction(p, "call"), call, "call", 1)
    ELSE IF action \in {"raise", "bet"}
    THEN IF p.style = "rock" /\ rnd[1] > agg
         THEN Returned(CountAction(p, "call"), call, "call", 1)
         ELSE LET used == IF p.style = "rock" THEN 1 ELSE 0 IN
              IF mnr <= mxr
              THEN RaiseWithSizing(p, sizing, mnr, mxr, used)
              ELSE Returned(CountAction(p, "call"), call, "call", used)
    ELSE Returned(CountAction(p, "call"), call, "call", 0)

(***************************************************************************)
(* The advisor's answer to one request, as _postflop meets it:             *)
(*   "timeout", "conn_error"  requests.post raises                        *)
(*   "http_error"             resp.raise_for_status() raises               *)
(*   "bad_json"               resp.json() raises                           *)
(*   "not_object"             the payload is not an object (.get raises)   *)
(*   "rec_not_object"         "recommendation" is not an object            *)
(*   "action_not_string"      "action" is not a string (.lower raises)     *)
(*   "ok"                     action (a lower-cased string; "fold" when    *)
(*                            the key is missing) and sizing are read      *)
(***************************************************************************)
\* statuses whose exception precedes self.advisor_calls += 1
FailsBeforeCount == {"timeout", "conn_error", "http_error", "bad_json", "not_object"}
\* statuses whose exception follows it
FailsAfterCount == {"rec_not_object", "action_not_string"}

DropDraws(rnd, n) == SubSeq(rnd, n + 1, Len(rnd))

\* an except: clause that gives the hand up instead of asking the heuristic
FallbackAfterErrorFolds(p, call, pot, stk, mnr, mxr, rnd, used) ==
    Returned(CountAction([p EXCEPT !.api_errors = @ + 1], "fold"), -1, "fold", used)

\* an except: clause that swallows the error without counting it
FallbackAfterErrorUncounted(p, call, pot, stk, mnr, mxr, rnd, used) ==
    LET h == Heuristic(p, call, pot, stk, mnr, mxr, DropDraws(rnd, used))
    IN  [h EXCEPT !.used = @ + used]

\* the except: clause of _postflop, then the fall through to _heuristic
FallbackAfterError(p, call, pot, stk, mnr, mxr, rnd, used) ==
    LET h == Heuristic([p EXCEPT !.api_errors = @ + 1], call, pot, stk, mnr, mxr,
                       DropDraws(rnd, used))
    IN  [h EXCEPT !.used = @ + used]

\* OmahaPlayer._postflop; board is the number of community cards
Postflop(p, board, call, pot, stk, mnr, mxr, oracle, rnd) ==
    IF p.fast_mode THEN Heuristic(p, call, pot, stk, mnr, mxr, rnd)
    ELSE IF board >= 3
    THEN IF oracle.status \in FailsBeforeCount
         THEN FallbackAfterError(p, call, pot, stk, mnr, mxr, rnd, 0)
         ELSE LET p1 == [p EXCEPT !.advisor_calls = @ + 1] IN
              IF oracle.status \in FailsAfterCount
              THEN FallbackAfterError(p1, call, pot, stk, mnr, mxr, rnd, 0)
              ELSE LET r == StyleAction(p1, oracle.action, oracle.sizing,
                                        call, pot, stk, mnr, mxr, rnd)
                   IN  IF r.exc
                       THEN FallbackAfterError(r.p, call, pot, stk, mnr, mxr, rnd, r.used)
                       ELSE r
    ELSE Heuristic(p, call, pot, stk, mnr, mxr, rnd)

\* OmahaPlayer.decide
Decide(p, ob, street_idx, num_p, hand_num, oracle, rnd) ==
    LET street == IF street_idx \in DOMAIN STREET_NAMES
                  THEN STREET_NAMES[street_idx] ELSE "preflop"
        p1 == [p EXCEPT !.streets[street] = @ + 1]
        stk == ob.stacks[p.idx + 1]
    IN  IF street_idx = 0
        THEN Preflop(p1, ob.hole_cards, ob.call, ob.pot, stk, ob.min_raise,
                     ob.max_raise, num_p, hand_num, rnd)
        ELSE Postflop(p1, ob.community_cards, ob.call, ob.pot, stk, ob.min_raise,
                      ob.max_raise, oracle, rnd)

(***************************************************************************)
(* TRAJECTORIES (TrajectoryAnalyzer.py).  Floating-point metrics are kept  *)
(* as exact fractions <<numerator, denominator>>: max_drawdown_pct as      *)
(* itself, volatility and sharpe_ratio by their squares (with the sign of  *)
(* the ratio), since volatility is a square root.                          *)
(***************************************************************************)
\* TrajectoryBot.initial_stack, the default of run_trajectory_test
DefaultInitialStack == 10000

\* PlayerTrajectory(name, strategy, initial_stack); name and strategy play
\* no part in the metrics
PlayerTrajectoryInit(initial_stack) ==
    [initial_stack |-> initial_stack,
     stack_history |-> <<>>, profit_history |-> <<>>, hand_results |-> <<>>,
     final_stack |-> 0, total_profit |-> 0, peak_stack |-> 0, min_stack |-> 0,
     max_drawdown |-> 0, max_drawdown_pct |-> <<0, 1>>,
     volatility_sq |-> <<0, 1>>,
     sharpe_ratio |-> [sign |-> 0, sq |-> <<0, 1>>],
     longest_win_streak |-> 0, longest_lose_streak |-> 0,
     hands_won |-> 0, hands_lost |-> 0]

\* TrajectoryBot.__init__ (the trajectory is registered under the bot's
\* name before the game starts)
TrajectoryBotInit == [prev_stack |-> 0]

\* the session: between hands or inside one, and how many times
\* compute_metrics has run
TrajRunInit == [in_round |-> FALSE, metrics_runs |-> 0]

\* TrajectoryBot.receive_round_start_message
receive_round_start_message(bot, seat_stack) ==
    [bot EXCEPT !.prev_stack = seat_stack]

\* TrajectoryBot.receive_round_result_message: the bot after it
receive_round_result_message(bot, my_stack) ==
    [bot EXCEPT !.prev_stack = my_stack]

\* TrajectoryBot.receive_round_result_message: the trajectory after it
RecordRound(t, bot, my_stack) ==
    [t EXCEPT !.stack_history = Append(@, my_stack),
              !.profit_history = Append(@, my_stack - t.initial_stack),
              !.hand_results = Append(@, my_stack - bot.prev_stack)]

SeqMax(s) == SetMax({s[i] : i \in 1..Len(s)})
SeqMin(s) == SetMin({s[i] : i \in 1..Len(s)})

\* a drawdown measured against the highest stack of the whole history
DrawdownScanGlobal(hist, peak, max_dd) ==
    IF hist = <<>> THEN <<peak, max_dd>>
    ELSE LET top == Max2(peak, SeqMax(hist))
         IN  <<top, Max2(max_dd, top - SeqMin(hist))>>

\* the drawdown loop of compute_metrics: <<peak, max_dd>> after the scan
RECURSIVE DrawdownScan(_, _, _)
DrawdownScan(hist, peak, max_dd) ==
    IF hist = <<>> THEN <<peak, max_dd>>
    ELSE LET stack == Head(hist)
             peak2 == IF stack > peak THEN stack ELSE peak
             dd == peak2 - stack
         IN  DrawdownScan(Tail(hist), peak2, IF dd > max_dd THEN dd ELSE max_dd)

\* a streak loop in which a zero result ends the current streak
RECURSIVE StreakScanZeroBreaks(_, _)
StreakScanZeroBreaks(results, st) ==
    IF results = <<>> THEN st
    ELSE LET result == Head(results)
             won == result > 0
             lost == result < 0
             cur == IF (won /\ st.is_winning = "True") \/ (lost /\ st.is_winning = "False")
                    THEN st.current_streak + 1
                    ELSE IF result = 0 THEN 0 ELSE 1
         IN  StreakScanZeroBreaks(Tail(results),
                [st EXCEPT !.hands_won = IF won THEN @ + 1 ELSE @,
                           !.hands_lost = IF lost THEN @ + 1 ELSE @,
                           !.current_streak = cur,
                           !.is_winning = IF won THEN "True" ELSE IF lost THEN "False"
                                          ELSE "None",
                           !.max_win = IF won THEN Max2(@, cur) ELSE @,
                           !.max_lose = IF lost THEN Max2(@, cur) ELSE @])

\* the streak loop of compute_metrics; st holds current_streak, is_winning
\* ("None", "True" or "False"), max_win, max_lose and the hands_won and
\* hands_lost fields it adds to
RECURSIVE StreakScan(_, _)
StreakScan(results, st) ==
    IF results = <<>> THEN st
    ELSE LET result == Head(results) IN
         IF result > 0
         THEN LET cur == IF st.is_winning = "True" THEN st.current_streak + 1 ELSE 1
              IN  StreakScan(Tail(results),
                     [st EXCEPT !.hands_won = @ + 1, !.current_streak = cur,
                                !.is_winning = "True",
                                !.max_win = Max2(@, cur)])
         ELSE IF result < 0
         THEN LET cur == IF st.is_winning = "False" THEN st.current_streak + 1 ELSE 1
              IN  StreakScan(Tail(results),
                     [st EXCEPT !.hands_lost = @ + 1, !.current_streak = cur,
                                !.is_winning = "False",
                                !.max_lose = Max2(@, cur)])
         ELSE StreakScan(Tail(results), st)

\* PlayerTrajectory.compute_metrics
compute_metrics(t) ==
    IF t.stack_history = <<>> THEN t
    ELSE
    LET final_stack == t.stack_history[Len(t.stack_history)]
        total_profit == final_stack - t.initial_stack
        scan == DrawdownScan(t.stack_history, t.initial_stack, 0)
        peak == scan[1]
        max_dd == scan[2]
        n == Len(t.hand_results)
        total == SeqSum(t.hand_results)
        squares == SeqSum([i \in 1..n |-> t.hand_results[i] * t.hand_results[i]])
        \* sum((x - mean)^2) / n  =  (n * sum(x^2) - sum(x)^2) / n^2
        volatility_sq == IF n > 1 THEN <<n * squares - total * total, n * n>>
                         ELSE t.volatility_sq
        \* (total_profit / n) / volatility, squared
        sharpe == IF volatility_sq[1] > 0 /\ n > 0
                  THEN [sign |-> IF total_profit > 0 THEN 1
                                 ELSE IF total_profit < 0 THEN -1 ELSE 0,
                        sq |-> <<total_profit * total_profit * volatility_sq[2],
                                 n * n * volatility_sq[1]>>]
                  ELSE t.sharpe_ratio
        st == StreakScan(t.hand_results,
                         [current_streak |-> 0, is_winning |-> "None",
                          max_win |-> 0, max_lose |-> 0,
                          hands_won |-> t.hands_won, hands_lost |-> t.hands_lost])
    IN  [t EXCEPT !.final_stack = final_stack,
                  !.total_profit = total_profit,
                  !.peak_stack = SeqMax(t.stack_history),
                  !.min_stack = SeqMin(t.stack_history),
                  !.max_drawdown = max_dd,
                  !.max_drawdown_pct = IF peak > 0 THEN <<max_dd * 100, peak>>
                                       ELSE <<0, 1>>,
                  !.volatility_sq = volatility_sq,
                  !.sharpe_ratio = sharpe,
                  !.longest_win_streak = st.max_win,
                  !.longest_lose_streak = st.max_lose,
                  !.hands_won = st.hands_won,
                  !.hands_lost = st.hands_lost]

(***************************************************************************)
(* STATISTICS.  The reports work in floating point; the model keeps exact  *)
(* values: a fraction is <<numerator, denominator>> with a positive        *)
(* denominator, and a bound of a confidence interval, which holds a square *)
(* root, is [c, s, q] standing for c + s * sqrt(q), with c and q fractions *)
(* and s the sign -1 or 1.  round() is not applied to the reported values. *)
(***************************************************************************)
Abs(x) == IF x < 0 THEN -x ELSE x

RECURSIVE GCD(_, _)
GCD(a, b) == IF b = 0 THEN a ELSE GCD(b, a % b)

\* the fraction num / den in lowest terms
Rat(num, den) ==
    LET g == GCD(Abs(num), Abs(den))
        sgn == IF den < 0 THEN -1 ELSE 1
    IN  <<sgn * (num \div g), sgn * (den \div g)>>

\* a <= b, the cross products taken after cancelling common factors
RatLeq(a, b) ==
    LET gn == GCD(Abs(a[1]), Abs(b[1]))
        gd == GCD(a[2], b[2])
    IN  IF gn = 0 THEN TRUE
        ELSE (a[1] \div gn) * (b[2] \div gd) <= (b[1] \div gn) * (a[2] \div gd)
RatSub(a, b) == Rat(a[1] * b[2] - b[1] * a[2], a[2] * b[2])
RatSquare(a) == <<a[1] * a[1], a[2] * a[2]>>

Surd(c, s, q) == [c |-> c, s |-> s, q |-> q]
\* a fraction as a bound
Exact(c) == Surd(c, 1, <<0, 1>>)

\* c + s * sqrt(q) <= r
SurdLeqRat(x, r) ==
    LET d == RatSub(r, x.c)
    IN  IF x.s > 0
        THEN d[1] >= 0 /\ RatLeq(x.q, RatSquare(d))
        ELSE d[1] >= 0 \/ RatLeq(RatSquare(d), x.q)

\* r <= c + s * sqrt(q)
RatLeqSurd(r, x) ==
    LET d == RatSub(r, x.c)
    IN  IF x.s > 0
        THEN d[1] <= 0 \/ RatLeq(RatSquare(d), x.q)
        ELSE d[1] <= 0 /\ RatLeq(x.q, RatSquare(d))

\* c + s * sqrt(q) = r
SurdEqRat(x, r) == SurdLeqRat(x, r) /\ RatLeqSurd(r, x)

\* n * sum(x^2) - sum(x)^2, the numerator of the sample variance:
\* sum((x - m)^2) / (n - 1)  =  (n * sum(x^2) - sum(x)^2) / (n * (n - 1))
SquaredDeviations(profs) ==
    LET n == Len(profs)
        total == SeqSum(profs)
        squares == SeqSum([i \in 1..n |-> profs[i] * profs[i]])
    IN  n * squares - total * total

\* z of the 95% interval, in hundredths (1.96)
Z95Hundredths == 196

\* an interval whose bounds are converted with the blind of another table
IntervalBoundOtherBlind(profs, s, bb) ==
    LET n == Len(profs)
    IN  Surd(Rat(100 * SeqSum(profs), 10 * bb * n), s,
             Rat(Z95Hundredths * Z95Hundredths * SquaredDeviations(profs),
                 100 * bb * bb * n * n * (n - 1)))

\* the bound m + s * 1.96 * se of the mean of profs, then / bb * 100
\* (se = sqrt(v) / sqrt(n)); bb is the size of the big blind in chips
IntervalBound(profs, s, bb) ==
    LET n == Len(profs)
    IN  Surd(Rat(100 * SeqSum(profs), bb * n), s,
             Rat(Z95Hundredths * Z95Hundredths * SquaredDeviations(profs),
                 bb * bb * n * n * (n - 1)))

\* --- run_omaha_test ------------------------------------------------------
\* the big blind of run_omaha_test (blinds[bb_seat] = 2)
OmahaBigBlind == 2

\* a bookkeeping that takes a hand without loss for a win
CountHandBreakEvenWins(p, pr) ==
    [p EXCEPT !.hands = @ + 1, !.profit = @ + pr,
              !.per_hand = Append(@, pr),
              !.wins = IF pr >= 0 THEN @ + 1 ELSE @]

\* the bookkeeping of a played hand for one player
CountHand(p, pr) ==
    [p EXCEPT !.hands = @ + 1, !.profit = @ + pr,
              !.per_hand = Append(@, pr),
              !.wins = IF pr > 0 THEN @ + 1 ELSE @]

RECURSIVE ConcatPerHand(_, _, _)
\* a["per_hand"] after the players 1..i were aggregated
ConcatPerHand(players, style, i) ==
    IF i = 0 THEN <<>>
    ELSE ConcatPerHand(players, style, i - 1)
         \o (IF players[i].style = style THEN players[i].per_hand ELSE <<>>)

\* agg[style] after "Aggregate by style"
AggregateStyle(players, style) ==
    LET idx == {i \in 1..Len(players) : players[i].style = style}
        Sum(f) == SetSum(f, idx)
    IN  [hands |-> Sum([i \in idx |-> players[i].hands]),
         wins |-> Sum([i \in idx |-> players[i].wins]),
         profit |-> Sum([i \in idx |-> players[i].profit]),
         advisor_calls |-> Sum([i \in idx |-> players[i].advisor_calls]),
         api_errors |-> Sum([i \in idx |-> players[i].api_errors]),
         vpip_hands |-> Sum([i \in idx |-> players[i].vpip_hands]),
         actions |-> [k \in ActionKeys |-> Sum([i \in idx |-> players[i].actions[k]])],
         streets |-> [k \in StreetKeys |-> Sum([i \in idx |-> players[i].streets[k]])],
         per_hand |-> ConcatPerHand(players, style, Len(players))]

\* results[style] of run_omaha_test, for an aggregate with hands > 0
OmahaStyleResult(a) ==
    LET n == a.hands
        bb100 == Rat(100 * a.profit, OmahaBigBlind * n)
        profs == a.per_hand
    IN  [hands |-> n,
         bb100 |-> bb100,
         ci |-> IF Len(profs) > 1
                THEN <<IntervalBound(profs, -1, OmahaBigBlind),
                       IntervalBound(profs, 1, OmahaBigBlind)>>
                ELSE <<Exact(bb100), Exact(bb100)>>,
         win_rate |-> Rat(100 * a.wins, n),
         flop_pct |-> Rat(100 * a.streets["flop"], n),
         vpip |-> Rat(100 * a.vpip_hands, n),
         actions |-> a.actions,
         streets |-> a.streets,
         advisor_calls |-> a.advisor_calls,
         api_errors |-> a.api_errors]

\* the "results" of run_omaha_test: styles without a hand are skipped
OmahaResults(players) ==
    LET styles == {players[i].style : i \in 1..Len(players)}
        played == {st \in styles : AggregateStyle(players, st).hands # 0}
    IN  [st \in played |-> OmahaStyleResult(AggregateStyle(players, st))]

\* --- StyleBasedTestRunner ------------------------------------------------
\* the big blind of run_style_test (small_blind_amount=10)
(***************************************************************************)
(* BINARY64 ARITHMETIC.  Python floats are IEEE-754 doubles.  A natural    *)
(* number of any size is a little-endian sequence of limbs below LimbBase  *)
(* without leading zero limbs; a positive double is [m, e] for m * 2^e     *)
(* with m of exactly 53 bits.  Signs, subnormals, infinities and NaN do    *)
(* not occur for the magnitudes computed here.                             *)
(***************************************************************************)
LimbBits == 3 * 5
LimbBase == 2 ^ LimbBits
MantissaBits == 52 + 1

RECURSIVE BNorm(_)
BNorm(a) ==
    IF a = <<>> THEN <<>>
    ELSE IF a[Len(a)] = 0 THEN BNorm(SubSeq(a, 1, Len(a) - 1))
    ELSE a

RECURSIVE BFromInt(_)
BFromInt(n) ==
    IF n = 0 THEN <<>> ELSE <<n % LimbBase>> \o BFromInt(n \div LimbBase)

RECURSIVE BToInt(_)
BToInt(a) ==
    IF a = <<>> THEN 0 ELSE a[1] + LimbBase * BToInt(Tail(a))

Limb(a, i) == IF i <= Len(a) THEN a[i] ELSE 0

RECURSIVE BAddC(_, _, _, _)
BAddC(a, b, i, carry) ==
    IF i > Len(a) /\ i > Len(b)
    THEN IF carry = 0 THEN <<>> ELSE <<carry>>
    ELSE LET t == Limb(a, i) + Limb(b, i) + carry
         IN  <<t % LimbBase>> \o BAddC(a, b, i + 1, t \div LimbBase)

BAdd(a, b) == BAddC(a, b, 1, 0)

\* a - b for a >= b
RECURSIVE BSubC(_, _, _, _)
BSubC(a, b, i, borrow) ==
    IF i > Len(a) THEN <<>>
    ELSE LET t == Limb(a, i) - Limb(b, i) - borrow
         IN  <<t % LimbBase>> \o BSubC(a, b, i + 1, IF t < 0 THEN 1 ELSE 0)

BSub(a, b) == BNorm(BSubC(a, b, 1, 0))

RECURSIVE BLessAt(_, _, _)
BLessAt(a, b, i) ==
    IF i = 0 THEN FALSE
    ELSE IF a[i] # b[i] THEN a[i] < b[i]
    ELSE BLessAt(a, b, i - 1)

BLess(a, b) ==
    IF Len(a) # Len(b) THEN Len(a) < Len(b) ELSE BLessAt(a, b, Len(a))

RECURSIVE BMulSmallC(_, _, _, _)
BMulSmallC(a, d, i, carry) ==
    IF i > Len(a)
    THEN IF carry = 0 THEN <<>> ELSE <<carry>>
    ELSE LET t == a[i] * d + carry
         IN  <<t % LimbBase>> \o BMulSmallC(a, d, i + 1, t \div LimbBase)

\* a * d for a limb d
BMulSmall(a, d) == BNorm(BMulSmallC(a, d, 1, 0))

RECURSIVE BMulAcc(_, _)
BMulAcc(a, b) ==
    IF b = <<>> THEN <<>>
    ELSE BAdd(BMulSmall(a, b[1]), <<0>> \o BMulAcc(a, Tail(b)))

BMul(a, b) == BNorm(BMulAcc(a, b))

RECURSIVE SmallBitLen(_)
SmallBitLen(n) == IF n = 0 THEN 0 ELSE 1 + SmallBitLen(n \div 2)

BitLen(a) ==
    IF a = <<>> THEN 0 ELSE (Len(a) - 1) * LimbBits + SmallBitLen(a[Len(a)])

\* bit i of a, bit 0 the lowest
BBit(a, i) == (Limb(a, (i \div LimbBits) + 1) \div (2 ^ (i % LimbBits))) % 2

\* a * 2^k
BShl(a, k) ==
    IF a = <<>> THEN <<>>
    ELSE BMulSmall([i \in 1..(k \div LimbBits) |-> 0] \o a, 2 ^ (k % LimbBits))

RECURSIVE BDivSmallAt(_, _, _, _)
BDivSmallAt(a, d, i, rem) ==
    IF i = 0 THEN <<>>
    ELSE LET cur == rem * LimbBase + a[i]
         IN  Append(BDivSmallAt(a, d, i - 1, cur % d), cur \div d)

\* floor(a / 2^k)
BShr(a, k) ==
    LET w == k \div LimbBits
        b == IF w >= Len(a) THEN <<>> ELSE SubSeq(a, w + 1, Len(a))
    IN  BNorm(BDivSmallAt(b, 2 ^ (k % LimbBits), Len(b), 0))

\* floor(a / d) for a limb d
BDivSmall(a, d) == BNorm(BDivSmallAt(a, d, Len(a), 0))

\* the number of zero bits below the lowest set bit of a # 0
RECURSIVE TrailingZeros(_, _)
TrailingZeros(a, i) == IF BBit(a, i) = 1 THEN i ELSE TrailingZeros(a, i + 1)

\* The double for the real x with m * 2^e <= x < (m+1) * 2^e, where sticky
\* says x > m * 2^e: to nearest, ties to even ("nearest"), towards zero
\* ("down") or away from it ("up").
RoundToDouble(m, e, sticky, mode) ==
    LET L == BitLen(m) IN
    IF L <= MantissaBits
    THEN [m |-> BShl(m, MantissaBits - L), e |-> e - (MantissaBits - L)]
    ELSE LET s == L - MantissaBits
             q1 == BShr(m, s - 1)
             low == sticky \/ BShl(q1, s - 1) # m
             half == BBit(q1, 0) = 1
             q == BShr(q1, 1)
             up == CASE mode = "nearest" -> half /\ (low \/ BBit(q, 0) = 1)
                     [] mode = "up" -> half \/ low
                     [] OTHER -> FALSE
             q2 == IF up THEN BAdd(q, <<1>>) ELSE q
         IN  IF BitLen(q2) > MantissaBits
             THEN [m |-> BShr(q2, 1), e |-> e + s + 1]
             ELSE [m |-> q2, e |-> e + s]

\* a float literal n/d in decimal notation: Python reads it correctly rounded
FloatLiteral(n, d) ==
    LET num == BShl(BFromInt(n), 70)
        q == BDivSmall(num, d)
    IN  RoundToDouble(q, -70, BMulSmall(q, d) # num, "nearest")

\* float + float
FAdd(a, b) ==
    LET e == Min2(a.e, b.e)
    IN  RoundToDouble(BAdd(BShl(a.m, a.e - e), BShl(b.m, b.e - e)), e, FALSE, "nearest")

\* float * float
FMul(a, b) == RoundToDouble(BMul(a.m, b.m), a.e + b.e, FALSE, "nearest")

\* float / float, for a divisor d * 2^k with a limb d
FDiv(a, b) ==
    LET k == TrailingZeros(b.m, 0)
        d == BToInt(BShr(b.m, k))
        num == BShl(a.m, 64)
        q == BDivSmall(num, d)
    IN  RoundToDouble(q, a.e - (b.e + k) - 64, BMulSmall(q, d) # num, "nearest")

\* x ** 2 is C's pow(x, 2.0), which is within an ulp of the square but need
\* not be the nearest double: either neighbour of the exact square
FPowTwo(x) ==
    {RoundToDouble(BMul(x.m, x.m), x.e + x.e, FALSE, mode) : mode \in {"down", "up"}}

\* int(math.ceil(x))
FCeil(x) ==
    IF x.e >= 0 THEN BToInt(BShl(x.m, x.e))
    ELSE LET q == BShr(x.m, -x.e)
         IN  BToInt(IF BShl(q, -x.e) = x.m THEN q ELSE BAdd(q, <<1>>))

\* calculate_sample_size_needed: the values it can return
calculate_sample_size_needed(expected_effect_bb100, std_dev_bb100, confidence, power) ==
    LET z_alpha == IF confidence = FloatLiteral(95, 100) THEN FloatLiteral(196, 100)
                   ELSE IF confidence = FloatLiteral(99, 100) THEN FloatLiteral(258, 100)
                   ELSE FloatLiteral(1645, 1000)
        z_beta == IF power = FloatLiteral(80, 100) THEN FloatLiteral(84, 100)
                  ELSE IF power = FloatLiteral(90, 100) THEN FloatLiteral(128, 100)
                  ELSE FloatLiteral(52, 100)
        ratio == FDiv(FMul(FAdd(z_alpha, z_beta), std_dev_bb100), expected_effect_bb100)
    IN  {FCeil(FMul(FloatLiteral(2, 1), sq)) : sq \in FPowTwo(ratio)}

StyleBigBlind == 20

\* the stack a StyleBasedPlayer assumes before the game tells it
StyleInitialStack == 10000

\* SessionStats(style) and StyleBasedPlayer.__init__; a hand record keeps
\* the fields the analysis reads
StyleBasedPlayerInit(style) ==
    [style |-> style,
     stats |-> [hands_played |-> 0, hands_won |-> 0, total_profit |-> 0,
                advisor_calls |-> 0, api_errors |-> 0,
                streets_reached |-> [k \in StreetKeys |-> 0]],
     hand_records |-> <<>>,
     current_hand |-> [hand_id |-> 0, has_stack_before |-> FALSE, stack_before |-> 0,
                       street |-> "preflop"],
     initial_stack |-> StyleInitialStack]

\* StyleBasedPlayer.receive_game_start_message
StyleGameStart(p, initial_stack) == [p EXCEPT !.initial_stack = initial_stack]

\* StyleBasedPlayer.receive_round_start_message
StyleRoundStart(p, round_count) ==
    [p EXCEPT !.stats.hands_played = @ + 1,
              !.current_hand = [hand_id |-> round_count, has_stack_before |-> FALSE,
                                stack_before |-> 0, street |-> "preflop"]]

\* the tracking at the head of StyleBasedPlayer.declare_action
StyleTrackDecision(p, street, my_stack) ==
    [p EXCEPT !.current_hand.street = street,
              !.current_hand.has_stack_before = TRUE,
              !.current_hand.stack_before = my_stack,
              !.stats.streets_reached[street] = @ + 1]

\* StyleBasedPlayer.receive_round_result_message
StyleRoundResult(p, won, final_stack) ==
    LET stack_before == IF p.current_hand.has_stack_before
                        THEN p.current_hand.stack_before ELSE p.initial_stack
        profit == final_stack - stack_before
    IN  [p EXCEPT !.stats.hands_won = IF won THEN @ + 1 ELSE @,
                  !.stats.total_profit = @ + profit,
                  !.hand_records = Append(@, [hand_id |-> p.current_hand.hand_id,
                                              street_reached |-> p.current_hand.street,
                                              stack_before |-> stack_before,
                                              stack_after |-> final_stack,
                                              profit_loss |-> profit,
                                              won |-> won])]

\* SessionStats.bb_per_100
bb_per_100(stats) ==
    IF stats.hands_played = 0 THEN <<0, 1>>
    ELSE Rat(100 * stats.total_profit, StyleBigBlind * stats.hands_played)

\* the entry analyze_results writes for one player
StylePlayerResult(p) ==
    LET bb100 == bb_per_100(p.stats)
        profits == [i \in 1..Len(p.hand_records) |-> p.hand_records[i].profit_loss]
        n == Len(profits)
    IN  [hands |-> p.stats.hands_played,
         wins |-> p.stats.hands_won,
         total_profit |-> p.stats.total_profit,
         bb_per_100 |-> bb100,
         ci_bb100 |-> IF n > 1
                      THEN <<IntervalBound(profits, -1, StyleBigBlind),
                             IntervalBound(profits, 1, StyleBigBlind)>>
                      ELSE <<Exact(bb100), Exact(bb100)>>,
         std_dev_sq |-> IF n > 1 THEN Rat(SquaredDeviations(profits), n * (n - 1))
                        ELSE <<0, 1>>,
         advisor_calls |-> p.stats.advisor_calls,
         api_errors |-> p.stats.api_errors,
         streets_reached |-> p.stats.streets_reached]

RECURSIVE AnalyzeUpTo(_, _)
\* results after the loop of analyze_results went through players 1..i; a
\* later player of the same style replaces the entry of an earlier one
AnalyzeUpTo(players, i) ==
    IF i = 0 THEN <<>>
    ELSE LET before == AnalyzeUpTo(players, i - 1)
             st == players[i].style
         IN  (st :> StylePlayerResult(players[i])) @@ before

\* analyze_results(players, num_players)
analyze_results(players) == AnalyzeUpTo(players, Len(players))

\* no report was produced yet
NoReport == [made |-> FALSE]
NoSession == [phase |-> "none"]
NoTally == [hands |-> -1]
NoTable == [players |-> <<>>]

(***************************************************************************)
(* HAND DATA CAPTURE (HandDataCapture.py).  Dicts whose iteration order    *)
(* the code relies on (player_info, the stacks handed to start_hand) are   *)
(* sequences in insertion order.  Timestamps, the session id and the      *)
(* output files are not kept.                                              *)
(***************************************************************************)
NoHand == [hand_id |-> -1]
NoSummary == [made |-> FALSE]

\* HandDataCollector.__init__
HandDataCollectorInit ==
    [current_hand |-> NoHand, current_hand_id |-> 0,
     player_info |-> <<>>, player_stacks |-> <<>>, player_start_stacks |-> <<>>,
     hands |-> <<>>]

\* a dict {uuid: stack} from its items in order
StackDict(items) ==
    [u \in {items[i][1] : i \in 1..Len(items)} |->
        LET i == CHOOSE j \in 1..Len(items) :
                     /\ items[j][1] = u
                     /\ \A k \in (j + 1)..Len(items) : items[k][1] # u
        IN  items[i][2]]

\* self.player_info.get(uuid, {}) with the defaults the callers apply
InfoOf(c, uuid) ==
    IF \E i \in 1..Len(c.player_info) : c.player_info[i].uuid = uuid
    THEN LET i == CHOOSE j \in 1..Len(c.player_info) : c.player_info[j].uuid = uuid
         IN  c.player_info[i]
    ELSE [uuid |-> uuid, name |-> uuid, strategy |-> "unknown", seat |-> 0]

\* HandDataCollector.register_player
register_player(c, uuid, name, strategy, seat, stack) ==
    LET entry == [uuid |-> uuid, name |-> name, strategy |-> strategy, seat |-> seat]
        known == \E i \in 1..Len(c.player_info) : c.player_info[i].uuid = uuid
    IN  [c EXCEPT
            !.player_info =
                IF known
                THEN [i \in 1..Len(@) |-> IF @[i].uuid = uuid THEN entry ELSE @[i]]
                ELSE Append(@, entry),
            !.player_stacks = (uuid :> stack) @@ @]

\* PlayerHandResult as start_hand builds it
PlayerHandResult(seat, name, strategy, stack) ==
    [seat |-> seat, name |-> name, strategy |-> strategy, hole_cards |-> <<>>,
     stack_start |-> stack, stack_end |-> stack, stack_change |-> 0,
     actions |-> <<>>, went_to_showdown |-> FALSE, won_hand |-> FALSE,
     won_amount |-> 0, folded_street |-> "None"]

\* HandDataCollector.start_hand; player_stacks are the items of the dict
start_hand(c, hand_id, player_stacks) ==
    [c EXCEPT
        !.current_hand_id = hand_id,
        !.current_hand =
            [hand_id |-> hand_id, num_players |-> Len(player_stacks),
             board |-> <<>>,
             players |-> [i \in 1..Len(player_stacks) |->
                            LET info == InfoOf(c, player_stacks[i][1])
                            IN  PlayerHandResult(info.seat, info.name, info.strategy,
                                                 player_stacks[i][2])],
             pot_size |-> 0, winners |-> <<>>, total_actions |-> 0,
             streets_played |-> <<>>],
        !.player_start_stacks = StackDict(player_stacks)]

\* str.lower() on the action names that occur
Lower(a) ==
    CASE a = "FOLD" -> "fold"
      [] a = "CALL" -> "call"
      [] a = "RAISE" -> "raise"
      [] OTHER -> a

\* index of the first player of the hand with the name, 0 when none has it
FirstNamed(players, name) ==
    IF \E i \in 1..Len(players) : players[i].name = name
    THEN CHOOSE i \in 1..Len(players) :
             /\ players[i].name = name
             /\ \A j \in 1..(i - 1) : players[j].name # name
    ELSE 0

\* HandDataCollector.record_hole_cards
record_hole_cards(c, uuid, cards) ==
    IF c.current_hand = NoHand THEN c
    ELSE LET i == FirstNamed(c.current_hand.players, InfoOf(c, uuid).name)
         IN  IF i = 0 THEN c
             ELSE [c EXCEPT !.current_hand.players[i].hole_cards = cards]

\* HandDataCollector.record_board
record_board(c, board) ==
    IF c.current_hand = NoHand THEN c
    ELSE [c EXCEPT !.current_hand.board = board]

\* a record_action that files the action in the last record of the log
\* when no hand is open
record_action_reopening(c, uuid, street, action, amount, advisor_action) ==
    IF c.current_hand = NoHand /\ c.hands # <<>>
    THEN [c EXCEPT !.hands[Len(c.hands)].total_actions = @ + 1]
    ELSE c

\* HandDataCollector.record_action; advisor_action is "None" when absent
record_action(c, uuid, street, action, amount, advisor_action) ==
    IF c.current_hand = NoHand THEN c
    ELSE
    LET info == InfoOf(c, uuid)
        followed == IF advisor_action = "None" THEN "None"
                    ELSE IF Lower(action) = Lower(advisor_action) THEN "True"
                    ELSE "False"
        betting_action == [player |-> info.name, strategy |-> info.strategy,
                           street |-> street, action |-> action, amount |-> amount,
                           advisor_action |-> advisor_action,
                           followed_advisor |-> followed]
        i == FirstNamed(c.current_hand.players, info.name)
        players == IF i = 0 THEN c.current_hand.players
                   ELSE [c.current_hand.players EXCEPT
                            ![i].actions = Append(@, betting_action),
                            ![i].folded_street =
                                IF Lower(action) = "fold" THEN street ELSE @]
    IN  [c EXCEPT !.current_hand.players = players,
                  !.current_hand.streets_played =
                      IF \E k \in 1..Len(@) : @[k] = street THEN @ ELSE Append(@, street),
                  !.current_hand.total_actions = @ + 1]

\* the uuid end_hand finds for a player name: the first registered with it
UuidNamed(c, name) ==
    IF \E i \in 1..Len(c.player_info) : c.player_info[i].name = name
    THEN LET i == CHOOSE j \in 1..Len(c.player_info) :
                      /\ c.player_info[j].name = name
                      /\ \A k \in 1..(j - 1) : c.player_info[k].name # name
         IN  c.player_info[i].uuid
    ELSE ""

\* HandDataCollector.end_hand; winners are the uuids of the winners' dicts,
\* final_stacks the items of the dict
end_hand(c, winners, final_stacks, pot_size) ==
    IF c.current_hand = NoHand THEN c
    ELSE
    LET finals == StackDict(final_stacks)
        winner_uuids == {winners[i] : i \in 1..Len(winners)}
        Settle(pl) ==
            LET uuid == UuidNamed(c, pl.name) IN
            IF uuid # ""
            THEN LET stack_end == IF uuid \in DOMAIN finals THEN finals[uuid]
                                  ELSE pl.stack_start
                     change == stack_end - pl.stack_start
                     won == uuid \in winner_uuids
                 IN  [pl EXCEPT !.stack_end = stack_end,
                                    !.stack_change = change,
                                    !.won_hand = won,
                                    !.won_amount = IF won THEN change ELSE @,
                                    !.went_to_showdown = (pl.folded_street = "None")]
            ELSE pl
        hand == [c.current_hand EXCEPT
                    !.pot_size = pot_size,
                    !.winners = [i \in 1..Len(winners) |-> InfoOf(c, winners[i]).name],
                    !.players = [i \in 1..Len(@) |-> Settle(@[i])]]
    IN  [c EXCEPT !.player_stacks = finals,
                  !.hands = Append(@, hand),
                  !.current_hand = NoHand]

\* strategy_stats[...] of a strategy not met yet
NewStrategyStats ==
    [hands |-> 0, wins |-> 0, total_profit |-> 0, showdowns |-> 0,
     showdown_wins |-> 0, folds |-> <<>>, actions |-> <<>>,
     advisor_followed |-> 0, advisor_ignored |-> 0]

\* d[k] += n on a defaultdict(int)
Bump(d, k, n) ==
    IF k \in DOMAIN d THEN [d EXCEPT ![k] = @ + n] ELSE (k :> n) @@ d

RECURSIVE TallyActions(_, _, _)
\* the loop over player.actions, through the first k of them
TallyActions(stats, actions, k) ==
    IF k = 0 THEN stats
    ELSE LET before == TallyActions(stats, actions, k - 1)
             action == actions[k]
         IN  [before EXCEPT
                 !.actions = Bump(@, action.action, 1),
                 !.advisor_followed =
                     IF action.followed_advisor = "True" THEN @ + 1 ELSE @,
                 !.advisor_ignored =
                     IF action.followed_advisor = "False" THEN @ + 1 ELSE @]

\* a tally that leaves out the players who put nothing in the pot
TallyPlayerActiveOnly(stats, pl) ==
    IF pl.stack_change = 0 /\ pl.actions = <<>> THEN stats
    ELSE TallyActions(
            [stats EXCEPT
                !.hands = @ + 1,
                !.total_profit = @ + pl.stack_change,
                !.wins = IF pl.won_hand THEN @ + 1 ELSE @],
            pl.actions, Len(pl.actions))

\* the body of the loop over hand.players, on the stats of the strategy
TallyPlayer(stats, pl) ==
    LET counted ==
            [stats EXCEPT
                !.hands = @ + 1,
                !.total_profit = @ + pl.stack_change,
                !.wins = IF pl.won_hand THEN @ + 1 ELSE @,
                !.showdowns = IF pl.went_to_showdown THEN @ + 1 ELSE @,
                !.showdown_wins =
                    IF pl.went_to_showdown /\ pl.won_hand THEN @ + 1 ELSE @,
                !.folds = IF pl.folded_street # "None"
                          THEN Bump(@, pl.folded_street, 1) ELSE @]
    IN  TallyActions(counted, pl.actions, Len(pl.actions))

RECURSIVE TallyOpponents(_, _, _, _)
\* the head-to-head loop over the opponents of a player, through the first k
TallyOpponents(h2h, hand, pl, k) ==
    IF k = 0 THEN h2h
    ELSE LET before == TallyOpponents(h2h, hand, pl, k - 1)
             opponent == hand.players[k]
         IN  IF opponent.name # pl.name
             THEN LET row == IF pl.strategy \in DOMAIN before
                             THEN before[pl.strategy] ELSE <<>>
                  IN  (pl.strategy :> Bump(row, opponent.strategy, pl.stack_change))
                      @@ before
             ELSE before

RECURSIVE TallyHand(_, _, _)
\* [strategy_stats, h2h] after the first k players of the hand
TallyHand(acc, hand, k) ==
    IF k = 0 THEN acc
    ELSE LET before == TallyHand(acc, hand, k - 1)
             pl == hand.players[k]
             stats == IF pl.strategy \in DOMAIN before.strategy_stats
                      THEN before.strategy_stats[pl.strategy]
                      ELSE NewStrategyStats
         IN  [strategy_stats |-> (pl.strategy :> TallyPlayer(stats, pl))
                                 @@ before.strategy_stats,
              h2h |-> TallyOpponents(before.h2h, hand, pl, Len(hand.players))]

RECURSIVE TallyHands(_, _)
\* [strategy_stats, h2h] after the first k hands of the session
TallyHands(hands, k) ==
    IF k = 0 THEN [strategy_stats |-> <<>>, h2h |-> <<>>]
    ELSE TallyHand(TallyHands(hands, k - 1), hands[k], Len(hands[k].players))

\* the big blind generate_session_summary assumes for bb_100
SummaryBigBlind == 20

\* HandDataCollector.generate_session_summary
generate_session_summary(c) ==
    LET tally == TallyHands(c.hands, Len(c.hands))
        Result(stats) ==
            [hands |-> stats.hands,
             wins |-> stats.wins,
             win_rate |-> IF stats.hands > 0 THEN Rat(100 * stats.wins, stats.hands)
                          ELSE <<0, 1>>,
             total_profit |-> stats.total_profit,
             avg_profit_per_hand |->
                 IF stats.hands > 0 THEN Rat(stats.total_profit, stats.hands)
                 ELSE <<0, 1>>,
             bb_100 |-> IF stats.hands > 0
                        THEN Rat(100 * stats.total_profit, SummaryBigBlind * stats.hands)
                        ELSE <<0, 1>>,
             showdowns |-> stats.showdowns,
             showdown_wins |-> stats.showdown_wins,
             wtsd |-> IF stats.hands > 0 THEN Rat(100 * stats.showdowns, stats.hands)
                      ELSE <<0, 1>>,
             wsd |-> IF stats.showdowns > 0
                     THEN Rat(100 * stats.showdown_wins, stats.showdowns)
                     ELSE <<0, 1>>,
             folds_by_street |-> stats.folds,
             actions |-> stats.actions,
             advisor_followed |-> stats.advisor_followed,
             advisor_ignored |-> stats.advisor_ignored]
    IN  [made |-> TRUE,
         num_hands |-> Len(c.hands),
         num_players |-> Len(c.player_info),
         strategies |-> {c.player_info[i].strategy : i \in 1..Len(c.player_info)},
         strategy_results |-> [st \in DOMAIN tally.strategy_stats |->
                                  Result(tally.strategy_stats[st])],
         head_to_head |-> tally.h2h]

(***************************************************************************)
(* THE TEST LOOP (run_omaha_test and play_hand).  The clubs dealer is the  *)
(* environment: reset and step succeed or raise, step says who acts next   *)
(* and when the hand is over, and the observation's stacks give the        *)
(* profits.                                                                *)
(***************************************************************************)
MAX_PLAYERS == (4 :> 11) @@ (5 :> 9) @@ (6 :> 7)

NoRun == [phase |-> "none"]

\* the default styles: cycle[i % 3]
DefaultStyles(num_p) ==
    [i \in 1..num_p |-> <<"tag", "lag", "rock">>[((i - 1) % 3) + 1]]

\* run_omaha_test up to the loop
RunSetup(variant, num_p, target, fast_mode) ==
    LET n == Min2(num_p, MAX_PLAYERS[variant])
        styles == DefaultStyles(n)
    IN  [phase |-> "loop", variant |-> variant, num_p |-> n, target |-> target,
         styles |-> styles,
         players |-> [i \in 1..n |-> OmahaPlayerInit(i - 1, styles[i], variant, fast_mode)],
         hands_done |-> 0, blinds |-> <<>>, steps |-> 0, decided |-> 0,
         raised |-> 0, results |-> <<>>]

\* the blinds of the hand: blinds[seat + 1] is what the seat posts
RotateBlinds(num_p, hands_done) ==
    LET sb_seat == hands_done % num_p
        bb_seat == (hands_done + 1) % num_p
    IN  [i \in 1..num_p |->
            IF num_p >= 2 /\ i - 1 = bb_seat THEN 2
            ELSE IF num_p >= 2 /\ i - 1 = sb_seat THEN 1
            ELSE 0]

\* an except: clause that leaves the count of hands alone
SkipBrokenHandUncounted(r) == [r EXCEPT !.phase = "loop"]

\* except: hands_done += 1
SkipBrokenHand(r) == [r EXCEPT !.phase = "loop", !.hands_done = @ + 1]

\* a safety limit that lets the hand run twice as long
max_steps_doubled(num_p) == num_p * 4 * 5 * 2

\* play_hand: max_steps, the safety limit of the step loop
max_steps(num_p) == num_p * 4 * 5

\* play_hand's return value, end_stacks[i] - start_stacks[i]: the big blind
\* won win chips from the small blind (or lost them, or nothing moved);
\* while no step has succeeded obs is still the one reset returned
ProfitsOf(r, win) ==
    [i \in 1..r.num_p |->
        IF r.steps = 0 THEN 0
        ELSE IF r.blinds[i] = 2 THEN win
        ELSE IF r.blinds[i] = 1 THEN -win ELSE 0]

\* the bookkeeping after play_hand returned the profits
HandPlayed(r, profits) ==
    [r EXCEPT !.phase = "loop",
              !.hands_done = @ + 1,
              !.players = [i \in 1..Len(@) |-> CountHand(@[i], profits[i])]]

(***************************************************************************)
(* The value every subsystem's variables have while another subsystem's    *)
(* specification runs.                                                     *)
(***************************************************************************)
NoPending == [street_idx |-> -1]
NoDecision == [made |-> FALSE]

ScoreIdle == /\ hole = {}
             /\ scoreOut = score_omaha_hand({})

PlayerIdle == player = OmahaPlayerInit(0, "tag", 4, TRUE)

EngineIdle == /\ pending = NoPending
              /\ last = NoDecision

FallbackIdle == /\ twin = OmahaPlayerInit(0, "tag", 4, TRUE)
                /\ oracleLog = <<>>
                /\ fastLog = <<>>
                /\ timeoutsOnly = TRUE

TrajIdle == /\ traj = PlayerTrajectoryInit(DefaultInitialStack)
            /\ trajBot = TrajectoryBotInit
            /\ trajRun = TrajRunInit

StatsIdle == /\ statPlayers = <<>>
             /\ stylePlayer = StyleBasedPlayerInit("tag")
             /\ statsOut = NoReport

CollIdle == /\ collector = HandDataCollectorInit
            /\ roster = <<>>
            /\ summary = NoSummary

SampleIdle == /\ sample = NoReport
              /\ sampleOut = NoReport

RunIdle == /\ run = NoRun
           /\ blindsLog = <<>>

SessionIdle == session = NoSession

VpipIdle == handTally = NoTally

TableIdle == styleTable = NoTable

\* every subsystem but the named ones is idle
IdleExcept(S) ==
    /\ IF "score" \in S THEN TRUE ELSE ScoreIdle
    /\ IF "player" \in S THEN TRUE ELSE PlayerIdle
    /\ IF "engine" \in S THEN TRUE ELSE EngineIdle
    /\ IF "fallback" \in S THEN TRUE ELSE FallbackIdle
    /\ IF "traj" \in S THEN TRUE ELSE TrajIdle
    /\ IF "stats" \in S THEN TRUE ELSE StatsIdle
    /\ IF "coll" \in S THEN TRUE ELSE CollIdle
    /\ IF "sample" \in S THEN TRUE ELSE SampleIdle
    /\ IF "run" \in S THEN TRUE ELSE RunIdle
    /\ IF "session" \in S THEN TRUE ELSE SessionIdle
    /\ IF "vpip" \in S THEN TRUE ELSE VpipIdle
    /\ IF "table" \in S THEN TRUE ELSE TableIdle

(***************************************************************************)
(* Specification of single players: a player of any style, variant and     *)
(* mode is constructed; the engine presents decision points (any           *)
(* observation, any street), and decide answers each with any outcome of   *)
(* the random draws and of the advisor.                                    *)
(***************************************************************************)
\* decisions one player is asked for
MaxDecisions == 1

Card(r, s) == [rank |-> r, suit |-> s]

\* deals of six cards; a variant's hole cards are the first `variant` of them
SampleDeals ==
    { <<Card("A", "s"), Card("K", "s"), Card("A", "h"), Card("K", "h"),
        Card("Q", "s"), Card("Q", "h")>>,
      <<Card("Q", "c"), Card("J", "c"), Card("T", "d"), Card("9", "h"),
        Card("8", "s"), Card("2", "d")>>,
      <<Card("J", "c"), Card("T", "d"), Card("9", "c"), Card("4", "h"),
        Card("A", "h"), Card("5", "s")>> }

HoleOf(deal, variant) == {deal[i] : i \in 1..variant}
AnyDeal == CHOOSE deal \in SampleDeals : TRUE

CallSet == {0, 5, 12}
PotSet == {3, 20, 60}
StackSet == {200}
\* <<min_raise, max_raise>>: a raise is legal, none is (min above max), none
\* is left (both 0)
RaiseRanges == {<<4, 30>>, <<10, 6>>, <<0, 0>>}
\* <<num_p, hand_num>>: seat 0 is UTG, BB and BTN of a six-seat table and SB
\* of a heads-up table
TableSet == {<<6, 0>>, <<6, 1>>, <<6, 3>>, <<2, 1>>}
\* random.random() in thousandths: below and above every rate of STYLES
DrawSet == {0, 999}
DrawStreams == [1..3 -> DrawSet]

SizingSet ==
    {[kind |-> "none", optimal |-> 0], [kind |-> "no_opt", optimal |-> 0],
     [kind |-> "bad_opt", optimal |-> 0], [kind |-> "not_obj", optimal |-> 0]}
    \cup {[kind |-> "int", optimal |-> n] : n \in {2, 15, 100}}

NoOracle == [status |-> "none", action |-> "none", sizing |-> [kind |-> "none", optimal |-> 0]]

OracleAnswers ==
    {[status |-> st, action |-> "none", sizing |-> [kind |-> "none", optimal |-> 0]] :
        st \in FailsBeforeCount \cup FailsAfterCount}
    \cup {[status |-> "ok", action |-> a, sizing |-> z] :
            a \in {"fold", "call", "check", "raise", "bet", "allin"}, z \in SizingSet}

Observation(call, pot, stk, range, cards, board, num_p) ==
    [call |-> call, pot |-> pot, stacks |-> [i \in 1..num_p |-> stk],
     min_raise |-> range[1], max_raise |-> range[2],
     hole_cards |-> cards, community_cards |-> board]

Decisions(p) == p.streets["preflop"] + p.streets["flop"] + p.streets["turn"]
                + p.streets["river"]

InitDecide ==
    /\ IdleExcept({"player"})
    /\ \E style \in StyleIds, variant \in {4, 6}, fast_mode \in BOOLEAN :
          player = OmahaPlayerInit(0, style, variant, fast_mode)

\* the engine asks the player for a preflop decision
ObservePreflop ==
    /\ pending = NoPending
    /\ ~last.made
    /\ Decisions(player) < MaxDecisions
    /\ \E call \in CallSet, pot \in PotSet, stk \in StackSet, range \in RaiseRanges,
          deal \in SampleDeals, tbl \in TableSet :
          pending' = [street_idx |-> 0, num_p |-> tbl[1], hand_num |-> tbl[2],
                      ob |-> Observation(call, pot, stk, range,
                                         HoleOf(deal, player.variant), 0, tbl[1])]
    /\ UNCHANGED <<player, last, notDecide>>

\* the engine asks the player for a decision on the flop, turn or river
ObservePostflop ==
    /\ pending = NoPending
    /\ ~last.made
    /\ Decisions(player) < MaxDecisions
    /\ \E street_idx \in 1..3, call \in CallSet, pot \in PotSet, stk \in StackSet,
          range \in RaiseRanges :
          pending' = [street_idx |-> street_idx, num_p |-> 6, hand_num |-> 0,
                      ob |-> Observation(call, pot, stk, range,
                                         HoleOf(AnyDeal, player.variant),
                                         street_idx + 2, 6)]
    /\ UNCHANGED <<player, last, notDecide>>

\* player.decide(obs, street_idx, num_p, hand_num)
DecideStep ==
    /\ pending # NoPending
    /\ \E rnd \in DrawStreams :
       \E oracle \in (IF pending.street_idx = 0 \/ player.fast_mode
                      THEN {NoOracle} ELSE OracleAnswers) :
          LET r == Decide(player, pending.ob, pending.street_idx, pending.num_p,
                          pending.hand_num, oracle, rnd)
          IN  \* draws the call does not consume are not part of it
              /\ \A i \in (r.used + 1)..Len(rnd) : rnd[i] = 0
              /\ player' = r.p
              /\ last' = [made |-> TRUE, pre |-> player, ob |-> pending.ob,
                          street_idx |-> pending.street_idx,
                          num_p |-> pending.num_p, hand_num |-> pending.hand_num,
                          oracle |-> oracle, rnd |-> rnd,
                          ret |-> r.ret, act |-> r.act, used |-> r.used,
                          exc |-> r.exc]
    /\ pending' = NoPending
    /\ UNCHANGED notDecide

\* play_hand hands the returned bet to the engine: dealer.step(max(bet, -1))
TakeBet ==
    /\ last.made
    /\ last' = NoDecision
    /\ UNCHANGED <<player, pending, notDecide>>

\* player.new_hand()
NewHandStep ==
    /\ pending = NoPending
    /\ ~last.made
    /\ player' = new_hand(player)
    /\ UNCHANGED <<pending, last, notDecide>>

NextDecide == ObservePreflop \/ ObservePostflop \/ DecideStep \/ TakeBet \/ NewHandStep

SpecDecide == InitDecide /\ [][NextDecide]_vars

(***************************************************************************)
(* Claims about single decisions (checked under SpecDecide)                *)
(***************************************************************************)
\* the stack decide reads from the observation
OwnStack(l) == l.ob.stacks[l.pre.idx + 1]

OracleCallFails(l) ==
    /\ l.street_idx > 0
    /\ ~l.pre.fast_mode
    /\ \/ l.oracle.status \in FailsBeforeCount \cup FailsAfterCount
       \/ /\ l.oracle.status = "ok"
          /\ StyleAction(l.pre, l.oracle.action, l.oracle.sizing, l.ob.call, l.ob.pot,
                         OwnStack(l), l.ob.min_raise, l.ob.max_raise, l.rnd).exc

\* draws consumed before the failure
DrawsBeforeFailure(l) ==
    IF l.oracle.status = "ok"
    THEN StyleAction(l.pre, l.oracle.action, l.oracle.sizing, l.ob.call, l.ob.pot,
                     OwnStack(l), l.ob.min_raise, l.ob.max_raise, l.rnd).used
    ELSE 0

\* C2: in oracle mode, when the advisor call of a postflop decision fails,
\* _postflop raises nothing, api_errors grows by exactly one and the action
\* returned is the heuristic's for the same observation.
C2_FallbackOnFailure ==
    (last.made /\ OracleCallFails(last)) =>
        LET h == Heuristic(last.pre, last.ob.call, last.ob.pot, OwnStack(last),
                           last.ob.min_raise, last.ob.max_raise,
                           DropDraws(last.rnd, DrawsBeforeFailure(last)))
        IN  /\ ~last.exc
            /\ player.api_errors = last.pre.api_errors + 1
            /\ last.ret = h.ret
            /\ last.act = h.act

\* C2 witness: the advisor times out facing a bet and the player raises as
\* the heuristic does.
C2_Witness ==
    /\ last.made
    /\ OracleCallFails(last)
    /\ last.oracle.status = "timeout"
    /\ last.ob.call > 0
    /\ last.act = "raise"
    /\ player.api_errors = 1

\* the decision `last` was a call of _preflop
WasPreflop == last.made /\ last.street_idx = 0

\* adjusted score and threshold of the decision `last`
LastAdjusted == AdjustedScore(last.pre, last.ob.hole_cards, last.num_p, last.hand_num)
LastThreshold == ScaledThreshold(last.pre)

\* C17: when the score plus the position adjustment reaches the threshold,
\* _preflop never folds: with the draw below pfr_ratio and min_raise <=
\* max_raise it returns the raise clamp(floor(pot * raise_sizing), min_raise,
\* max_raise), and in every other case exactly the call amount.
C17_StrongHandNeverFolds ==
    (WasPreflop /\ LastAdjusted >= LastThreshold) =>
        LET sd == STYLES[last.pre.style]
            mnr == last.ob.min_raise
            mxr == last.ob.max_raise
            want == (last.ob.pot * sd.raise_sizing) \div 100
        IN  /\ last.act # "fold"
            /\ last.ret # -1
            /\ ~last.exc
            /\ IF last.rnd[1] < sd.pfr_ratio /\ mnr <= mxr
               THEN /\ last.act = "raise"
                    /\ last.ret = (IF want < mnr THEN mnr ELSE IF want > mxr THEN mxr
                                   ELSE want)
               ELSE /\ last.act = "call"
                    /\ last.ret = last.ob.call

\* C17 witness: a hand above the threshold was raised to the minimum raise
\* because the pot-sized amount was smaller.
C17_Witness ==
    /\ WasPreflop
    /\ LastAdjusted >= LastThreshold
    /\ last.act = "raise"
    /\ (last.ob.pot * STYLES[last.pre.style].raise_sizing) \div 100 < last.ob.min_raise
    /\ last.ret = last.ob.min_raise

\* the margin of a style and the share of the stack it pays, in hundredths
MarginOf(style) ==
    CASE style \in {"lag", "fish"} -> 5
      [] style \in {"tag", "reg"} -> 3
      [] OTHER -> 0
FractionOf(style) ==
    CASE style = "fish" -> 8
      [] style = "lag" -> 5
      [] OTHER -> 3

\* C18: when the score plus the position adjustment is below the threshold,
\* _preflop checks (returns 0) whenever the call amount is 0; facing a bet it
\* calls exactly when the style has a margin, the adjusted score is at least
\* threshold - margin and the call is at most the style's fraction of the
\* stack, and folds otherwise (nit and rock always).
C18_WeakHandCheckCallFold ==
    (WasPreflop /\ LastAdjusted < LastThreshold) =>
        LET style == last.pre.style
            call == last.ob.call
            pays == /\ MarginOf(style) > 0
                    /\ LastAdjusted >= LastThreshold - MarginOf(style) * ScoreScale
                    /\ 100 * call <= OwnStack(last) * FractionOf(style)
        IN  /\ ~last.exc
            /\ call = 0 => (last.act = "call" /\ last.ret = 0)
            /\ (call # 0 /\ pays) => (last.act = "call" /\ last.ret = call)
            /\ (call # 0 /\ ~pays) => (last.act = "fold" /\ last.ret = -1)
            /\ (call # 0 /\ style \in {"nit", "rock"}) => last.act = "fold"

\* C18 witness: a hand within the margin below the threshold was called at
\* a price the style pays.
C18_Witness ==
    /\ WasPreflop
    /\ LastAdjusted < LastThreshold
    /\ LastAdjusted >= LastThreshold - MarginOf(last.pre.style) * ScoreScale
    /\ last.ob.call > 0
    /\ last.act = "call"
    /\ last.ret = last.ob.call

\* the decision `last` was answered by _heuristic from its first draw on
WasHeuristic ==
    /\ last.made
    /\ last.street_idx > 0
    /\ last.pre.fast_mode \/ last.oracle.status \in FailsBeforeCount \cup FailsAfterCount

\* max(lo, min(amount, hi)) for lo <= hi
Clamped(amount, lo, hi) == IF amount < lo THEN lo ELSE IF amount > hi THEN hi ELSE amount

\* C19: _heuristic with draws r1, r2.  With min_raise <= max_raise: facing
\* no bet it bets clamp(floor(pot * (0.5 + raise_sizing * 0.25))) if r1 <
\* cbet and checks otherwise; facing a bet it folds if r1 < fold_cbet, else
\* raises clamp(floor(pot * 0.75)) if r2 < postflop_agg, else calls.  With
\* min_raise > max_raise every bet becomes a check and every raise a call.
C19_HeuristicBranches ==
    WasHeuristic =>
        LET sd == STYLES[last.pre.style]
            call == last.ob.call
            pot == last.ob.pot
            mnr == last.ob.min_raise
            mxr == last.ob.max_raise
            r1 == last.rnd[1]
            r2 == last.rnd[2]
            legal == mnr <= mxr
            \* 0.5 + raise_sizing * 0.25 in ten-thousandths
            open == (pot * (5000 + sd.raise_sizing * 25)) \div 10000
            back == (pot * 3) \div 4
        IN  /\ ~last.exc
            /\ (call = 0 /\ r1 < sd.cbet /\ legal) =>
                  (last.act = "raise" /\ last.ret = Clamped(open, mnr, mxr))
            /\ (call = 0 /\ ~(r1 < sd.cbet /\ legal)) =>
                  (last.act = "call" /\ last.ret = 0)
            /\ (call # 0 /\ r1 < sd.fold_cbet) =>
                  (last.act = "fold" /\ last.ret = -1)
            /\ (call # 0 /\ r1 >= sd.fold_cbet /\ r2 < sd.postflop_agg /\ legal) =>
                  (last.act = "raise" /\ last.ret = Clamped(back, mnr, mxr))
            /\ (call # 0 /\ r1 >= sd.fold_cbet /\ ~(r2 < sd.postflop_agg /\ legal)) =>
                  (last.act = "call" /\ last.ret = call)

\* C19 witness: after a failed advisor call the heuristic did not fold to a
\* bet, drew a raise and, no raise being legal, returned the call amount.
C19_Witness ==
    /\ WasHeuristic
    /\ ~last.pre.fast_mode
    /\ last.ob.call > 0
    /\ last.rnd[1] >= STYLES[last.pre.style].fold_cbet
    /\ last.rnd[2] < STYLES[last.pre.style].postflop_agg
    /\ last.ob.min_raise > last.ob.max_raise
    /\ last.act = "call"
    /\ last.ret = last.ob.call

\* what _style_action makes of the heuristic's action for the decision
\* `last`, with the draws the heuristic left
OverrideOfHeuristic ==
    LET stk == OwnStack(last)
        h == Heuristic(last.pre, last.ob.call, last.ob.pot, stk, last.ob.min_raise,
                       last.ob.max_raise, last.rnd)
    IN  StyleAction(h.p, h.act, [kind |-> "int", optimal |-> h.ret], last.ob.call,
                    last.ob.pot, stk, last.ob.min_raise, last.ob.max_raise,
                    DropDraws(last.rnd, h.used))

\* C20: in every postflop decision the action produced, the heuristic's as
\* well as the advisor's, goes through the style override and then the
\* clamp: what a heuristic decision returns is what _style_action makes of
\* the heuristic's action.
C20_HeuristicOverridden ==
    WasHeuristic =>
        /\ last.act = OverrideOfHeuristic.act
        /\ last.ret = OverrideOfHeuristic.ret

\* C20 witness: a fast-mode lag player folded to a bet of at most 0.3 of the
\* pot on the heuristic's word, where the override of a fold draws for a
\* call.
C20_Witness ==
    /\ WasHeuristic
    /\ last.pre.fast_mode
    /\ last.pre.style = "lag"
    /\ last.ob.call > 0
    /\ 10 * last.ob.call <= 3 * last.ob.pot
    /\ last.act = "fold"
    /\ last.ret = -1
    /\ OverrideOfHeuristic.act = "call"

\* the number of actions a player has counted
ActionsCounted(p) == p.actions["fold"] + p.actions["call"] + p.actions["raise"]

\* C28: every call of decide increments exactly one entry of the actions
\* counter by one, so the sum of actions equals the sum of streets (the
\* number of decisions made), also when the advisor answered and the
\* handling of its recommendation failed, so that the heuristic ran.
C28_OneActionPerDecision ==
    /\ ActionsCounted(player) = Decisions(player)
    /\ last.made =>
          \E key \in ActionKeys :
              player.actions = [last.pre.actions EXCEPT ![key] = @ + 1]

\* C28 witness: the advisor recommended a raise with a sizing whose optimal
\* is no number; the raise was counted before int() failed, the error was
\* counted, and the heuristic counted the call it returned.
C28_Witness ==
    /\ last.made
    /\ last.oracle.status = "ok"
    /\ last.oracle.action = "raise"
    /\ last.oracle.sizing.kind = "bad_opt"
    /\ player.api_errors = last.pre.api_errors + 1
    /\ last.act = "call"
    /\ player.actions["raise"] = last.pre.actions["raise"] + 1
    /\ player.actions["call"] = last.pre.actions["call"] + 1
    /\ Decisions(player) = 1

(***************************************************************************)
(* Specification of the fallback: an oracle-mode player and the same       *)
(* player in fast mode sit through the same hands.  Each decision point is *)
(* presented to both, with the same observation and the same random        *)
(* draws; the advisor of the oracle-mode player times out or answers.      *)
(***************************************************************************)
\* decisions asked of each player over the run
MaxFbDecisions == 3

FbDeals == {d \in SampleDeals : d[1].rank \in {"A", "Q"}}
FbCallSet == {0, 5}
FbRange == <<4, 30>>
FbPot == 20
FbStack == 200
FbOracleAnswers ==
    {[status |-> "timeout", action |-> "none", sizing |-> [kind |-> "none", optimal |-> 0]],
     [status |-> "ok", action |-> "raise", sizing |-> [kind |-> "int", optimal |-> 15]]}

\* street of the latest decision of the hand (-1 before the first)
LastStreet(log) == IF log = <<>> THEN -1 ELSE log[Len(log)].street_idx

InitFallback ==
    /\ IdleExcept({"player", "fallback"})
    /\ oracleLog = <<>>
    /\ fastLog = <<>>
    /\ timeoutsOnly = TRUE
    /\ \E style \in StyleIds :
          /\ player = OmahaPlayerInit(0, style, 4, FALSE)
          /\ twin = OmahaPlayerInit(0, style, 4, TRUE)

\* one decision point of the hand, answered by both players
FbDecide(street_idx, call, deal, oracle, rnd) ==
    LET board == IF street_idx = 0 THEN 0 ELSE street_idx + 2
        ob == Observation(call, FbPot, FbStack, FbRange, HoleOf(deal, 4), board, 6)
        ro == Decide(player, ob, street_idx, 6, 1, oracle, rnd)
        rf == Decide(twin, ob, street_idx, 6, 1, NoOracle, rnd)
    IN  /\ Decisions(player) < MaxFbDecisions
        /\ LastStreet(oracleLog) <= street_idx
        /\ \A i \in (Max2(ro.used, rf.used) + 1)..Len(rnd) : rnd[i] = 0
        /\ player' = ro.p
        /\ twin' = rf.p
        /\ oracleLog' = Append(oracleLog, [street_idx |-> street_idx, act |-> ro.act,
                                           ret |-> ro.ret, used |-> ro.used])
        /\ fastLog' = Append(fastLog, [street_idx |-> street_idx, act |-> rf.act,
                                       ret |-> rf.ret, used |-> rf.used])
        /\ timeoutsOnly' = (timeoutsOnly /\ oracle.status \in {"none", "timeout"})
        /\ UNCHANGED notFallback

FbPreflop ==
    \E call \in FbCallSet, deal \in FbDeals, rnd \in DrawStreams :
        FbDecide(0, call, deal, NoOracle, rnd)

FbPostflop ==
    \E street_idx \in 1..3, call \in FbCallSet, oracle \in FbOracleAnswers,
       rnd \in DrawStreams :
        FbDecide(street_idx, call, AnyDeal, oracle, rnd)

\* the hand ends and the next one starts: new_hand() on both players
FbNewHand ==
    /\ oracleLog # <<>>
    /\ player' = new_hand(player)
    /\ twin' = new_hand(twin)
    /\ oracleLog' = <<>>
    /\ fastLog' = <<>>
    /\ timeoutsOnly' = TRUE
    /\ UNCHANGED notFallback

NextFallback == FbPreflop \/ FbPostflop \/ FbNewHand

SpecFallback == InitFallback /\ [][NextFallback]_vars

\* C3: over a hand in which every advisor call timed out, the oracle-mode
\* player has returned the same actions and amounts, consuming the same
\* random draws, as the fast-mode player.
C3_TimeoutsReduceToHeuristic ==
    timeoutsOnly => oracleLog = fastLog

\* C3 witness: a hand reaches the turn with a timed-out call on the flop
\* and on the turn, and a raise among the returned actions.
C3_Witness ==
    /\ timeoutsOnly
    /\ Len(oracleLog) = 3
    /\ oracleLog[1].street_idx = 0
    /\ oracleLog[3].street_idx = 2
    /\ player.api_errors >= 2
    /\ \E i \in 1..3 : oracleLog[i].act = "raise" /\ oracleLog[i].street_idx > 0
    /\ oracleLog = fastLog

(***************************************************************************)
(* Specification of the hands of one player: new_hand opens a hand, and    *)
(* within it the engine asks the player for up to MaxVpipDecisions         *)
(* decisions, preflop ones with any cards, seat and price, and heuristic   *)
(* ones after the flop.  handTally is the history of the hand: the number  *)
(* of new_hand calls so far, vpip_hands as the latest one found it, the    *)
(* decisions since, and whether one of them had an adjusted score at or    *)
(* above the threshold.                                                    *)
(***************************************************************************)
MaxVpipHands == 2
MaxVpipDecisions == 3

\* a raise is legal, or none is
VpipRanges == {<<4, 30>>, <<10, 6>>}
\* seat 0 is UTG or BTN of a six-seat table
VpipTables == {<<6, 0>>, <<6, 3>>}

InitVpip ==
    /\ IdleExcept({"player", "vpip"})
    /\ \E style \in StyleIds : player = OmahaPlayerInit(0, style, 4, TRUE)
    /\ handTally = [hands |-> 0, base |-> 0, decisions |-> 0, qualified |-> FALSE]

\* play_hand: p.new_hand() before the first decision of the hand
VpipNewHand ==
    /\ handTally.hands < MaxVpipHands
    /\ player' = new_hand(player)
    /\ handTally' = [hands |-> handTally.hands + 1, base |-> player.vpip_hands,
                 decisions |-> 0, qualified |-> FALSE]
    /\ UNCHANGED notVpip

\* a preflop decision of the hand
VpipPreflop ==
    /\ handTally.hands > 0
    /\ handTally.decisions < MaxVpipDecisions
    /\ \E call \in FbCallSet, range \in VpipRanges, deal \in SampleDeals,
          tbl \in VpipTables, draw \in DrawSet :
          LET ob == Observation(call, FbPot, FbStack, range, HoleOf(deal, 4), 0, tbl[1])
              rnd == <<draw, 0, 0>>
              r == Decide(player, ob, 0, tbl[1], tbl[2], NoOracle, rnd)
          IN  /\ r.used = 0 => draw = 0
              /\ player' = r.p
              /\ handTally' = [handTally EXCEPT
                              !.decisions = @ + 1,
                              !.qualified =
                                  @ \/ AdjustedScore(player, ob.hole_cards, tbl[1], tbl[2])
                                          >= ScaledThreshold(player)]
    /\ UNCHANGED notVpip

\* a decision of the hand after the flop
VpipPostflop ==
    /\ handTally.hands > 0
    /\ handTally.decisions < MaxVpipDecisions
    /\ \E call \in FbCallSet, draw \in DrawSet :
          LET ob == Observation(call, FbPot, FbStack, FbRange, HoleOf(AnyDeal, 4), 3, 6)
              r == Decide(player, ob, 1, 6, 0, NoOracle, <<draw, draw, 0>>)
          IN  player' = r.p
    /\ handTally' = [handTally EXCEPT !.decisions = @ + 1]
    /\ UNCHANGED notVpip

NextVpip == VpipNewHand \/ VpipPreflop \/ VpipPostflop

SpecVpip == InitVpip /\ [][NextVpip]_vars

\* C16: between two consecutive new_hand calls, whatever the number of
\* preflop decisions of the player, vpip_hands has grown by at most one
\* since the first call, and by exactly one once a decision had its score
\* plus position adjustment at or above the threshold.
C16_VpipOncePerHand ==
    handTally.hands > 0 =>
        /\ player.vpip_hands - handTally.base \in {0, 1}
        /\ handTally.qualified => player.vpip_hands = handTally.base + 1

\* C16 witness: in the second hand of a player who entered the first, three
\* decisions were taken, one of them qualifying, and vpip_hands is one
\* above what new_hand found.
C16_Witness ==
    /\ handTally.hands = MaxVpipHands
    /\ handTally.base = 1
    /\ handTally.decisions = MaxVpipDecisions
    /\ handTally.qualified
    /\ player.streets["preflop"] >= 4
    /\ player.vpip_hands = 2

(***************************************************************************)
(* Specification of a trajectory: a session of at most MaxHistory hands;   *)
(* each hand starts with the stack the previous one ended with and ends    *)
(* with any stack of StackValues; compute_metrics runs after the session.  *)
(***************************************************************************)
MaxHistory == 4
\* times compute_metrics is run on the finished session
MaxMetricsRuns == 2

StackValues == {900, 1000, 1200, 1400, 1500}
InitialStacks == {1000, 1300}

\* the stack the player holds now
CurrentStack(t) ==
    IF t.stack_history = <<>> THEN t.initial_stack
    ELSE t.stack_history[Len(t.stack_history)]

InitTraj ==
    /\ IdleExcept({"traj"})
    /\ \E s0 \in InitialStacks : traj = PlayerTrajectoryInit(s0)
    /\ trajBot = TrajectoryBotInit
    /\ trajRun = TrajRunInit

TrajRoundStart ==
    /\ ~trajRun.in_round
    /\ trajRun.metrics_runs = 0
    /\ Len(traj.stack_history) < MaxHistory
    /\ trajBot' = receive_round_start_message(trajBot, CurrentStack(traj))
    /\ trajRun' = [trajRun EXCEPT !.in_round = TRUE]
    /\ UNCHANGED <<traj, notTraj>>

TrajRoundResult ==
    /\ trajRun.in_round
    /\ \E my_stack \in StackValues :
          /\ traj' = RecordRound(traj, trajBot, my_stack)
          /\ trajBot' = receive_round_result_message(trajBot, my_stack)
    /\ trajRun' = [trajRun EXCEPT !.in_round = FALSE]
    /\ UNCHANGED notTraj

\* traj.compute_metrics() once the game is over
TrajCompute ==
    /\ ~trajRun.in_round
    /\ trajRun.metrics_runs < MaxMetricsRuns
    /\ traj' = compute_metrics(traj)
    /\ trajRun' = [trajRun EXCEPT !.metrics_runs = @ + 1]
    /\ UNCHANGED <<trajBot, notTraj>>

NextTraj == TrajRoundStart \/ TrajRoundResult \/ TrajCompute

SpecTraj == InitTraj /\ [][NextTraj]_vars

\* the highest of the initial stack and the first i stacks of the history
RunningPeak(t, i) ==
    SetMax({t.initial_stack} \cup {t.stack_history[j] : j \in 1..i})

\* C6: after compute_metrics on a non-empty history s_1..s_n from s_0,
\* final_stack = s_n, total_profit = s_n - s_0, peak_stack and min_stack
\* are the maximum and minimum of the history, and max_drawdown is the
\* largest drop below the running peak max(s_0..s_i) - s_i; the history
\* 1200, 900, 1500, 1400 from 1000 gives 1400, 400, 1500 and 300.
C6_TrajectoryMetrics ==
    (trajRun.metrics_runs > 0 /\ traj.stack_history # <<>>) =>
        LET h == traj.stack_history
            n == Len(h)
        IN  /\ traj.final_stack = h[n]
            /\ traj.total_profit = h[n] - traj.initial_stack
            /\ traj.peak_stack = SetMax({h[i] : i \in 1..n})
            /\ traj.min_stack = SetMin({h[i] : i \in 1..n})
            /\ traj.max_drawdown = SetMax({RunningPeak(traj, i) - h[i] : i \in 1..n})
            /\ (h = <<1200, 900, 1500, 1400>> /\ traj.initial_stack = 1000) =>
                  /\ traj.final_stack = 1400
                  /\ traj.total_profit = 400
                  /\ traj.peak_stack = 1500
                  /\ traj.max_drawdown = 300

\* C6 witness: the metrics of the history 1200, 900, 1500, 1400 from 1000
\* have been computed.
C6_Witness ==
    /\ trajRun.metrics_runs > 0
    /\ traj.initial_stack = 1000
    /\ traj.stack_history = <<1200, 900, 1500, 1400>>
    /\ traj.max_drawdown = 300
    /\ traj.final_stack = 1400

\* the hands of the history at which the drop below the running peak is
\* the largest of the history
DeepestHands(t) ==
    LET n == Len(t.stack_history)
        drop(i) == RunningPeak(t, i) - t.stack_history[i]
    IN  {i \in 1..n : \A j \in 1..n : drop(j) <= drop(i)}

\* C21: after compute_metrics on a non-empty history, max_drawdown_pct is
\* 100 * max_drawdown / P with P the running peak in force at a hand where
\* the maximum drawdown was reached; the history 1200, 900, 1500 from 1000
\* gives 300 / 1200 = 25%.
C21_DrawdownPctAtItsPeak ==
    (trajRun.metrics_runs > 0 /\ traj.stack_history # <<>>) =>
        /\ \E i \in DeepestHands(traj) :
              traj.max_drawdown_pct[1] * RunningPeak(traj, i)
                  = 100 * traj.max_drawdown * traj.max_drawdown_pct[2]
        /\ (traj.stack_history = <<1200, 900, 1500>> /\ traj.initial_stack = 1000) =>
              traj.max_drawdown_pct[1] = 25 * traj.max_drawdown_pct[2]

\* C21 witness: the metrics of the history 1200, 900, 1500 from 1000 have
\* been computed: the drawdown is 300 and the percentage 300 / 1500 = 20%.
C21_Witness ==
    /\ trajRun.metrics_runs = 1
    /\ traj.initial_stack = 1000
    /\ traj.stack_history = <<1200, 900, 1500>>
    /\ traj.max_drawdown = 300
    /\ traj.max_drawdown_pct[1] = 20 * traj.max_drawdown_pct[2]

\* the results with the zero ones removed
WithoutZeros(results) == SelectSeq(results, LAMBDA x : x # 0)

\* the length of the longest run of results of one sign (1 or -1)
LongestRun(results, sign) ==
    LET n == Len(results)
        same(i, k) == \A j \in i..(i + k - 1) : results[j] * sign > 0
    IN  SetMax({0} \cup {k \in 1..n : \E i \in 1..(n - k + 1) : same(i, k)})

\* C22: the first compute_metrics sets longest_win_streak to the longest
\* run of strictly positive results and longest_lose_streak to the longest
\* run of strictly negative results of the hand results without the zero
\* ones: a zero neither extends nor breaks a streak, a result of the other
\* sign starts a new one.
C22_StreaksSkipZeros ==
    (trajRun.metrics_runs = 1 /\ traj.stack_history # <<>>) =>
        /\ traj.longest_win_streak = LongestRun(WithoutZeros(traj.hand_results), 1)
        /\ traj.longest_lose_streak = LongestRun(WithoutZeros(traj.hand_results), -1)

\* C22 witness: two winning hands with a zero hand between them and a
\* losing hand after them give a winning streak of two and a losing streak
\* of one.
C22_Witness ==
    /\ trajRun.metrics_runs = 1
    /\ Len(traj.hand_results) = 4
    /\ traj.hand_results[1] > 0
    /\ traj.hand_results[2] = 0
    /\ traj.hand_results[3] > 0
    /\ traj.hand_results[4] < 0
    /\ traj.longest_win_streak = 2
    /\ traj.longest_lose_streak = 1

\* C29: compute_metrics is idempotent: a second call on an unchanged
\* trajectory leaves every derived field as the first call set it, and
\* hands_won + hands_lost never exceeds the number of hand results.
C29_MetricsIdempotent ==
    /\ [](traj.hands_won + traj.hands_lost <= Len(traj.hand_results))
    /\ [][(trajRun.metrics_runs >= 1 /\ trajRun'.metrics_runs = trajRun.metrics_runs + 1)
              => traj' = traj]_vars

\* C29 witness: compute_metrics has run twice on a history of one winning
\* hand and hands_won is 2.
C29_Witness ==
    /\ trajRun.metrics_runs = 2
    /\ Len(traj.hand_results) = 1
    /\ traj.hand_results[1] > 0
    /\ traj.hands_won = 2
    /\ traj.longest_win_streak = 1

(***************************************************************************)
(* Specification of the statistics: either a run_omaha_test session of two *)
(* players (each hand hands them a vector of profits, then the results are *)
(* reported) or a run_style_test session of one StyleBasedPlayer (rounds   *)
(* start, the player may act, rounds end; then analyze_results).           *)
(***************************************************************************)
MaxSamples == 3

\* profits of the two seats of a hand, in chips
ProfitVectors == {<<3, -3>>, <<-2, 2>>, <<0, 0>>, <<3, -2>>}
StatStyles == {<<"tag", "lag">>, <<"tag", "tag">>}

\* stacks a StyleBasedPlayer sees, around its initial stack
StyleStacks == {StyleInitialStack - 2, StyleInitialStack, StyleInitialStack + 3}

InitStats ==
    /\ IdleExcept({"stats"})
    /\ stylePlayer = StyleBasedPlayerInit("tag")
    /\ statsOut = NoReport
    /\ \/ statPlayers = <<>>
       \/ \E st \in StatStyles :
             statPlayers = [i \in 1..2 |-> OmahaPlayerInit(i - 1, st[i], 4, TRUE)]

\* a hand of run_omaha_test was played
StatsOmahaHand ==
    /\ statPlayers # <<>>
    /\ ~statsOut.made
    /\ statPlayers[1].hands < MaxSamples
    /\ \E profits \in ProfitVectors :
          statPlayers' = [i \in 1..2 |-> CountHand(statPlayers[i], profits[i])]
    /\ UNCHANGED <<stylePlayer, statsOut, notStats>>

\* the aggregation and the results of run_omaha_test
StatsOmahaReport ==
    /\ statPlayers # <<>>
    /\ ~statsOut.made
    /\ statsOut' = [made |-> TRUE, kind |-> "omaha", results |-> OmahaResults(statPlayers)]
    /\ UNCHANGED <<statPlayers, stylePlayer, notStats>>

\* the engine starts a round for the StyleBasedPlayer
StatsRoundStart ==
    /\ statPlayers = <<>>
    /\ ~statsOut.made
    /\ stylePlayer.stats.hands_played = Len(stylePlayer.hand_records)
    /\ stylePlayer.stats.hands_played < MaxSamples
    /\ stylePlayer' = StyleRoundStart(stylePlayer, stylePlayer.stats.hands_played + 1)
    /\ UNCHANGED <<statPlayers, statsOut, notStats>>

\* the player is asked for an action during the round
StatsDeclare ==
    /\ statPlayers = <<>>
    /\ stylePlayer.stats.hands_played > Len(stylePlayer.hand_records)
    /\ ~stylePlayer.current_hand.has_stack_before
    /\ \E my_stack \in StyleStacks :
          stylePlayer' = StyleTrackDecision(stylePlayer, "preflop", my_stack)
    /\ UNCHANGED <<statPlayers, statsOut, notStats>>

\* the round ends
StatsRoundResult ==
    /\ statPlayers = <<>>
    /\ stylePlayer.stats.hands_played > Len(stylePlayer.hand_records)
    /\ \E final_stack \in StyleStacks :
          stylePlayer' = StyleRoundResult(stylePlayer, final_stack > StyleInitialStack,
                                          final_stack)
    /\ UNCHANGED <<statPlayers, statsOut, notStats>>

\* analyze_results after the game
StatsAnalyze ==
    /\ statPlayers = <<>>
    /\ ~statsOut.made
    /\ stylePlayer.stats.hands_played = Len(stylePlayer.hand_records)
    /\ statsOut' = [made |-> TRUE, kind |-> "style",
                    results |-> analyze_results(<<stylePlayer>>)]
    /\ UNCHANGED <<statPlayers, stylePlayer, notStats>>

NextStats == StatsOmahaHand \/ StatsOmahaReport \/ StatsRoundStart \/ StatsDeclare
             \/ StatsRoundResult \/ StatsAnalyze

SpecStats == InitStats /\ [][NextStats]_vars

\* the samples a reported entry was computed from, and its interval
ReportedSamples(st) ==
    IF statsOut.kind = "omaha"
    THEN ConcatPerHand(statPlayers, st, Len(statPlayers))
    ELSE [i \in 1..Len(stylePlayer.hand_records) |->
              stylePlayer.hand_records[i].profit_loss]
ReportedInterval(st) ==
    IF statsOut.kind = "omaha" THEN statsOut.results[st].ci
    ELSE statsOut.results[st].ci_bb100
ReportedBB100(st) ==
    IF statsOut.kind = "omaha" THEN statsOut.results[st].bb100
    ELSE statsOut.results[st].bb_per_100
ReportedBlind == IF statsOut.kind = "omaha" THEN OmahaBigBlind ELSE StyleBigBlind

\* C8: for every style reported from a non-empty list of per-hand profits,
\* the bounds of the 95% interval enclose the sample mean, which in the
\* reported unit is the BB/100 of the style: lower <= BB/100 <= upper; from
\* a single sample both bounds are the reported BB/100.
C8_IntervalHoldsMean ==
    statsOut.made =>
        \A st \in DOMAIN statsOut.results :
            LET profs == ReportedSamples(st)
                ci == ReportedInterval(st)
                bb100 == ReportedBB100(st)
                mean == Rat(100 * SeqSum(profs), ReportedBlind * Len(profs))
            IN  Len(profs) > 0 =>
                  /\ SurdLeqRat(ci[1], mean)
                  /\ RatLeqSurd(mean, ci[2])
                  /\ SurdLeqRat(ci[1], bb100)
                  /\ RatLeqSurd(bb100, ci[2])
                  /\ Len(profs) = 1 =>
                        /\ SurdEqRat(ci[1], bb100)
                        /\ SurdEqRat(ci[2], bb100)

\* C8 witness: an interval of positive width was reported around a
\* positive BB/100, which lies strictly above its lower bound.
C8_Witness ==
    /\ statsOut.made
    /\ \E st \in DOMAIN statsOut.results :
          /\ Len(ReportedSamples(st)) = MaxSamples
          /\ ReportedBB100(st)[1] > 0
          /\ ReportedInterval(st)[1].q[1] > 0
          /\ ~RatLeqSurd(ReportedBB100(st), ReportedInterval(st)[1])

(***************************************************************************)
(* Specification of a style table: run_style_test with the players of a    *)
(* composition.  The engine starts a round by posting the blinds, asks     *)
(* players for at most MaxStyleDecisions actions in the round (each pays   *)
(* nothing or StyleBet), and ends it by paying the pot to one player;      *)
(* after at most MaxStyleRounds rounds the results are analyzed.  In       *)
(* styleTable, stacks are the chips the engine holds for each seat and     *)
(* starts is the history of the stacks every round started with.           *)
(***************************************************************************)
MaxStyleRounds == 2
MaxStyleDecisions == 2

\* small_blind_amount of run_style_test
StyleSmallBlind == 10
\* chips a player pays when it calls
StyleBet == 20

\* compositions: all styles distinct, and two players of one style
StyleTables == {<<"tag", "lag">>, <<"tag", "rock", "rock">>}

InitTable ==
    /\ IdleExcept({"table"})
    /\ \E styles \in StyleTables :
          styleTable =
              [players |-> [i \in 1..Len(styles) |->
                               StyleGameStart(StyleBasedPlayerInit(styles[i]),
                                              StyleInitialStack)],
               stacks |-> [i \in 1..Len(styles) |-> StyleInitialStack],
               starts |-> <<>>, in_round |-> FALSE, pot |-> 0, decisions |-> 0,
               report |-> NoReport]

\* the engine posts the blinds and sends every player the round start
TableRoundStart ==
    /\ ~styleTable.in_round
    /\ ~styleTable.report.made
    /\ Len(styleTable.starts) < MaxStyleRounds
    /\ LET n == Len(styleTable.players)
           sb == (Len(styleTable.starts) % n) + 1
           bb == (sb % n) + 1
       IN  styleTable' =
              [styleTable EXCEPT
                  !.starts = Append(@, styleTable.stacks),
                  !.stacks = [i \in 1..n |->
                                 IF i = sb THEN @[i] - StyleSmallBlind
                                 ELSE IF i = bb THEN @[i] - StyleBigBlind
                                 ELSE @[i]],
                  !.pot = StyleSmallBlind + StyleBigBlind,
                  !.decisions = 0,
                  !.in_round = TRUE,
                  !.players = [i \in 1..n |->
                                  StyleRoundStart(@[i], Len(styleTable.starts) + 1)]]
    /\ UNCHANGED notTable

\* declare_action of one player, who then pays nothing or the bet
TableDeclare ==
    /\ styleTable.in_round
    /\ styleTable.decisions < MaxStyleDecisions
    /\ \E i \in 1..Len(styleTable.players), pay \in {0, StyleBet} :
          styleTable' =
              [styleTable EXCEPT
                  !.players[i] = StyleTrackDecision(@, IF styleTable.decisions = 0
                                                       THEN "preflop" ELSE "flop",
                                                    styleTable.stacks[i]),
                  !.stacks[i] = @ - pay,
                  !.pot = @ + pay,
                  !.decisions = @ + 1]
    /\ UNCHANGED notTable

\* the pot is paid and every player receives the round result
TableRoundResult ==
    /\ styleTable.in_round
    /\ \E w \in 1..Len(styleTable.players) :
          LET n == Len(styleTable.players)
              final == [i \in 1..n |-> IF i = w THEN styleTable.stacks[i] + styleTable.pot
                                       ELSE styleTable.stacks[i]]
          IN  styleTable' =
                 [styleTable EXCEPT
                     !.stacks = final,
                     !.pot = 0,
                     !.in_round = FALSE,
                     !.players = [i \in 1..n |-> StyleRoundResult(@[i], i = w, final[i])]]
    /\ UNCHANGED notTable

\* analyze_results(players, len(styles)) after the game
TableAnalyze ==
    /\ ~styleTable.in_round
    /\ ~styleTable.report.made
    /\ styleTable.starts # <<>>
    /\ styleTable' = [styleTable EXCEPT
                         !.report = [made |-> TRUE,
                                     results |-> analyze_results(styleTable.players)]]
    /\ UNCHANGED notTable

NextTable == TableRoundStart \/ TableDeclare \/ TableRoundResult \/ TableAnalyze

SpecTable == InitTable /\ [][NextTable]_vars

\* the sum of f over the players, and over the entries of the results
RECURSIVE SumOver(_, _)
SumOver(S, f) ==
    IF S = {} THEN 0
    ELSE LET x == CHOOSE y \in S : TRUE IN f[x] + SumOver(S \ {x}, f)

\* C23: analyze_results drops no player: summed over the returned per-style
\* entries, 'hands' and 'total_profit' equal the sums of hands_played and
\* total_profit over all players, also when players share a style.
C23_AnalysisDropsNoPlayer ==
    styleTable.report.made =>
        LET ps == styleTable.players
            res == styleTable.report.results
        IN  /\ SumOver(DOMAIN res, [st \in DOMAIN res |-> res[st].hands])
                  = SumOver(DOMAIN ps, [i \in DOMAIN ps |-> ps[i].stats.hands_played])
            /\ SumOver(DOMAIN res, [st \in DOMAIN res |-> res[st].total_profit])
                  = SumOver(DOMAIN ps, [i \in DOMAIN ps |-> ps[i].stats.total_profit])

\* C23 witness: the table tag, rock, rock was analyzed after two rounds and
\* the results have one entry for tag and one for rock.
C23_Witness ==
    /\ styleTable.report.made
    /\ Len(styleTable.players) = 3
    /\ Len(styleTable.starts) = MaxStyleRounds
    /\ DOMAIN styleTable.report.results = {"tag", "rock"}
    /\ styleTable.report.results["rock"].hands = MaxStyleRounds

\* C24: every HandRecord's profit_loss is the player's stack at the end of
\* the hand minus its stack at the start of that hand, however many
\* decisions the player made in it; hence total_profit is the current stack
\* minus the initial stack.
C24_ProfitIsEndMinusStart ==
    \A i \in 1..Len(styleTable.players) :
        LET p == styleTable.players[i] IN
        /\ \A k \in 1..Len(p.hand_records) :
              p.hand_records[k].profit_loss
                  = p.hand_records[k].stack_after - styleTable.starts[k][i]
        /\ ~styleTable.in_round =>
              p.stats.total_profit = styleTable.stacks[i] - p.initial_stack

\* C24 witness: a player posted a blind, called twice and lost the first
\* hand; its record says it lost one bet.
C24_Witness ==
    /\ Len(styleTable.starts) = 1
    /\ ~styleTable.in_round
    /\ styleTable.stacks[1] = StyleInitialStack - StyleSmallBlind - 2 * StyleBet
    /\ Len(styleTable.players[1].hand_records) = 1
    /\ styleTable.players[1].hand_records[1].profit_loss = -StyleBet

(***************************************************************************)
(* Specification of the collector: the players of a roster are registered, *)
(* hands start, one action at most is recorded in a hand, hands end with   *)
(* one of a few outcomes, and the summary is generated after the last one. *)
(***************************************************************************)
MaxCollHands == 2

\* the stack every player is registered with
CollStack == 1000
\* chips that change hands in a hand
CollPot == 10

Seat(uuid, name, strategy) == [uuid |-> uuid, name |-> name, strategy |-> strategy]
\* two players, three players two of whom share a strategy, and two
\* players registered under one name
Rosters ==
    { <<Seat("u1", "a", "TAG"), Seat("u2", "b", "LAG")>>,
      <<Seat("u1", "a", "TAG"), Seat("u2", "b", "TAG"), Seat("u3", "c", "LAG")>>,
      <<Seat("u1", "a", "TAG"), Seat("u2", "a", "LAG")>> }

\* <<action, advisor_action>> of a recorded action
RecordedActions == {<<"fold", "None">>, <<"CALL", "call">>, <<"raise", "call">>}

Registered == Len(collector.player_info) = Len(roster)

\* the items of the collector's stack dict, in the order of the roster
StackItems(c) == [i \in 1..Len(roster) |-> <<roster[i].uuid, c.player_stacks[roster[i].uuid]>>]

InitColl ==
    /\ IdleExcept({"coll"})
    /\ collector = HandDataCollectorInit
    /\ summary = NoSummary
    /\ roster \in Rosters

CollRegister ==
    /\ ~Registered
    /\ LET i == Len(collector.player_info) + 1
       IN  collector' = register_player(collector, roster[i].uuid, roster[i].name,
                                        roster[i].strategy, i, CollStack)
    /\ UNCHANGED <<roster, summary, notColl>>

\* a hand starts; when one is open already its record is dropped
CollStartHand ==
    /\ Registered
    /\ ~summary.made
    /\ Len(collector.hands) < MaxCollHands
    /\ collector.current_hand_id < MaxCollHands
    /\ collector' = start_hand(collector, collector.current_hand_id + 1,
                               StackItems(collector))
    /\ UNCHANGED <<roster, summary, notColl>>

\* hole cards are recorded for the last player of the roster, at any time
CollHoleCards ==
    /\ Registered
    /\ ~summary.made
    /\ collector' = record_hole_cards(collector, roster[Len(roster)].uuid, <<"As", "Kd">>)
    /\ UNCHANGED <<roster, summary, notColl>>

\* the board is recorded, at any time
CollBoard ==
    /\ Registered
    /\ ~summary.made
    /\ collector' = record_board(collector, <<"2c", "7d", "9h">>)
    /\ UNCHANGED <<roster, summary, notColl>>

\* an action is recorded: the first of the open hand, or one that comes
\* when no hand is open
CollRecordAction ==
    /\ Registered
    /\ ~summary.made
    /\ collector.current_hand # NoHand => collector.current_hand.total_actions = 0
    /\ \E i \in 1..Len(roster), act \in RecordedActions :
          collector' = record_action(collector, roster[i].uuid, "preflop", act[1],
                                     CollPot, act[2])
    /\ UNCHANGED <<roster, summary, notColl>>

\* the hand ends: a player wins the pot from the next one, or the pot is
\* split between the two with no chip moving
CollEndHand ==
    /\ Registered
    /\ ~summary.made
    /\ \E w \in 1..Len(roster), split \in BOOLEAN :
          LET l == (w % Len(roster)) + 1
              items == StackItems(collector)
              finals == [i \in 1..Len(roster) |->
                            <<items[i][1],
                              IF split THEN items[i][2]
                              ELSE IF i = w THEN items[i][2] + CollPot
                              ELSE IF i = l THEN items[i][2] - CollPot
                              ELSE items[i][2]>>]
              winners == IF split THEN <<roster[w].uuid, roster[l].uuid>>
                         ELSE <<roster[w].uuid>>
          IN  /\ split => w = 1
              /\ collector' = end_hand(collector, winners, finals, 2 * CollPot)
    /\ UNCHANGED <<roster, summary, notColl>>

CollSummary ==
    /\ Registered
    /\ ~summary.made
    /\ collector.current_hand = NoHand
    /\ summary' = generate_session_summary(collector)
    /\ UNCHANGED <<collector, roster, notColl>>

NextColl == CollRegister \/ CollStartHand \/ CollHoleCards \/ CollBoard
            \/ CollRecordAction \/ CollEndHand \/ CollSummary

SpecCollector == InitColl /\ [][NextColl]_vars

\* the player entries of the session log: <<hand, player>> index pairs
LogEntries ==
    {e \in (1..Len(collector.hands)) \X (1..Len(roster)) :
        e[2] <= Len(collector.hands[e[1]].players)}
EntryOf(e) == collector.hands[e[1]].players[e[2]]
EntriesOf(st) == {e \in LogEntries : EntryOf(e).strategy = st}
LoggedStrategies == {EntryOf(e).strategy : e \in LogEntries}

\* C9: in the summary of a session log, each strategy's hands is the number
\* of its player entries over all hands, wins the number of those that won,
\* total_profit the sum of their stack changes; and the hands and profits
\* of all strategies add up to those of all entries of the log.
C9_SummaryMatchesLog ==
    summary.made =>
        LET res == summary.strategy_results
            change == [e \in LogEntries |-> EntryOf(e).stack_change]
        IN  /\ DOMAIN res = LoggedStrategies
            /\ \A st \in LoggedStrategies :
                  /\ res[st].hands = Cardinality(EntriesOf(st))
                  /\ res[st].wins = Cardinality({e \in EntriesOf(st) : EntryOf(e).won_hand})
                  /\ res[st].total_profit = SetSum(change, EntriesOf(st))
            /\ SetSum([st \in DOMAIN res |-> res[st].hands], DOMAIN res)
                  = Cardinality(LogEntries)
            /\ SetSum([st \in DOMAIN res |-> res[st].total_profit], DOMAIN res)
                  = SetSum(change, LogEntries)

\* C9 witness: the summary of MaxCollHands hands of three players, two of
\* them of one strategy, which won a hand and holds a net profit.
C9_Witness ==
    /\ summary.made
    /\ Len(collector.hands) = MaxCollHands
    /\ Len(roster) = 3
    /\ summary.strategy_results["TAG"].hands = 2 * MaxCollHands
    /\ summary.strategy_results["TAG"].wins > 0
    /\ summary.strategy_results["TAG"].total_profit > 0

\* ordered pairs of two different player entries of one hand, the first of
\* style s1 and the second of style s2
StylePairs(s1, s2) ==
    {pair \in LogEntries \X LogEntries :
        /\ pair[1][1] = pair[2][1]
        /\ pair[1][2] # pair[2][2]
        /\ EntryOf(pair[1]).strategy = s1
        /\ EntryOf(pair[2]).strategy = s2}

\* C13: head_to_head[s1][s2] exists only for distinct styles and is the sum,
\* over every hand and every ordered pair of a player of style s1 and
\* another player of style s2 in it, of the s1 player's stack_change; two
\* players of one style add nothing to the matrix.
C13_HeadToHeadDistinctStyles ==
    summary.made =>
        LET h2h == summary.head_to_head
        IN  /\ \A s1 \in DOMAIN h2h : \A s2 \in DOMAIN h2h[s1] :
                  /\ s1 # s2
                  /\ h2h[s1][s2] =
                        SetSum([pair \in StylePairs(s1, s2) |-> EntryOf(pair[1]).stack_change],
                               StylePairs(s1, s2))
            /\ \A s1, s2 \in LoggedStrategies :
                  (s1 # s2 /\ StylePairs(s1, s2) # {}) =>
                      (s1 \in DOMAIN h2h /\ s2 \in DOMAIN h2h[s1])

\* C13 witness: two TAG players and a LAG player played a hand that one
\* TAG player won from the other, and the summary has a TAG against TAG
\* entry.
C13_Witness ==
    /\ summary.made
    /\ Len(roster) = 3
    /\ Len(collector.hands) = 1
    /\ collector.hands[1].players[1].stack_change = CollPot
    /\ collector.hands[1].players[2].stack_change = -CollPot
    /\ "TAG" \in DOMAIN summary.head_to_head
    /\ "TAG" \in DOMAIN summary.head_to_head["TAG"]

\* C14: a record in hands is never changed by a later call and hands never
\* gets shorter.
C14_LogAppendOnly ==
    [][/\ Len(collector'.hands) >= Len(collector.hands)
       /\ \A i \in 1..Len(collector.hands) : collector'.hands[i] = collector.hands[i]]_vars

\* C14 witness: with one hand in the log, a second hand is open and has its
\* board, hole cards and an action recorded while the first record is what
\* it was.
C14_Witness ==
    /\ Len(collector.hands) = 1
    /\ collector.hands[1].board = <<>>
    /\ collector.hands[1].total_actions = 0
    /\ collector.current_hand # NoHand
    /\ collector.current_hand.board # <<>>
    /\ collector.current_hand.total_actions = 1
    /\ \E i \in 1..Len(roster) : collector.current_hand.players[i].hole_cards # <<>>

\* the hand records the collector holds: the log and the open hand
AllRecords ==
    {collector.hands[k] : k \in 1..Len(collector.hands)}
    \cup (IF collector.current_hand = NoHand THEN {} ELSE {collector.current_hand})

\* C26: record_action and record_hole_cards attach their data to the
\* PlayerHandResult of the player registered under the uuid they are given,
\* and end_hand sets each player's stack_end from that player's own uuid,
\* also when two players are registered with one display name: every action
\* filed under a player carries the strategy registered for it, hole cards
\* (recorded for the last player only) are with no other player, and the
\* stack_end of the latest record is the final stack of the player's uuid.
C26_DataFollowsUuid ==
    /\ \A h \in AllRecords : \A i \in 1..Len(h.players) :
          /\ \A k \in 1..Len(h.players[i].actions) :
                h.players[i].actions[k].strategy = roster[i].strategy
          /\ i < Len(roster) => h.players[i].hole_cards = <<>>
    /\ collector.hands # <<>> =>
          \A i \in 1..Len(roster) :
              collector.hands[Len(collector.hands)].players[i].stack_end
                  = collector.player_stacks[roster[i].uuid]

\* C26 witness: with two players registered under the name a, the first
\* player's record holds an action of the second (strategy LAG) and the
\* hole cards recorded for the second.
C26_Witness ==
    /\ Len(roster) = 2
    /\ roster[1].name = roster[2].name
    /\ collector.current_hand # NoHand
    /\ Len(collector.current_hand.players[1].actions) = 1
    /\ collector.current_hand.players[1].actions[1].strategy = roster[2].strategy
    /\ collector.current_hand.players[2].actions = <<>>
    /\ collector.current_hand.players[1].hole_cards # <<>>
    /\ collector.current_hand.players[2].hole_cards = <<>>

(***************************************************************************)
(* COMPREHENSIVE TEST RUNNER (ComprehensiveTestRunner.py).  The engine is  *)
(* PyPokerEngine: it offers fold, call and raise at every decision, the    *)
(* raise with min = max = -1 when no raise is possible.  valid_actions is  *)
(* the record [call, min, max] of the amounts offered.  Random draws are   *)
(* in hundredths; confidence is the advisor's percentage.                  *)
(***************************************************************************)
\* InstrumentedBot._preflop_action; rnd.draw is random.random(), rnd.choice
\* the entry random.choice picks, rnd.high whether randint returns its
\* upper bound (its lower bound otherwise)
PreflopAction(strategy, va, rnd) ==
    LET can_raise == va.min > 0 /\ va.max >= va.min
        call == <<"call", va.call>>
        fold == <<"fold", 0>>
    IN  IF va.call = 0 THEN <<"call", 0>>
        ELSE CASE strategy = "MANIAC" ->
                    IF can_raise THEN <<"raise", Min2(va.min * 3, va.max)>> ELSE call
               [] strategy = "NIT" -> IF va.call <= 10 THEN call ELSE fold
               [] strategy = "FISH" -> call
               [] strategy = "LAG" ->
                    IF rnd.draw < 40 /\ can_raise THEN <<"raise", va.min>> ELSE call
               [] strategy = "RANDOM" ->
                    IF rnd.choice = "raise"
                    THEN IF can_raise
                         THEN <<"raise", IF rnd.high THEN Min2(va.max, va.min * 3)
                                         ELSE va.min>>
                         ELSE fold
                    ELSE <<rnd.choice, IF rnd.choice = "call" THEN va.call ELSE 0>>
               [] OTHER -> IF va.call <= 30 THEN call ELSE fold

\* InstrumentedBot._execute_action; optimal is sizing["optimal"], -1 when
\* the advice has none
ExecuteAction(action, optimal, va) ==
    CASE action = "fold" -> <<"fold", 0>>
      [] action \in {"call", "check"} -> <<"call", va.call>>
      [] action \in {"raise", "bet"} ->
            IF va.min <= 0 \/ va.max < va.min THEN <<"call", va.call>>
            ELSE <<"raise", Max2(va.min, Min2(IF optimal = -1 THEN va.min ELSE optimal,
                                               va.max))>>
      [] OTHER -> <<"fold", 0>>

\* InstrumentedBot._apply_strategy
ApplyStrategy(strategy, advisor_action, confidence, optimal, va, rnd) ==
    CASE strategy = "RANDOM" ->
            IF rnd.choice = "raise"
            THEN IF va.min > 0 /\ va.max >= va.min
                 THEN <<"raise", IF rnd.high THEN Min2(va.max, va.min * 2) ELSE va.min>>
                 ELSE <<"fold", 0>>
            ELSE <<rnd.choice, IF rnd.choice = "call" THEN va.call ELSE 0>>
      [] strategy = "MANIAC" ->
            IF rnd.draw < 80 THEN ExecuteAction("raise", optimal, va)
            ELSE ExecuteAction(advisor_action, optimal, va)
      [] strategy = "FISH" ->
            IF advisor_action \in {"raise", "bet"} THEN <<"call", va.call>>
            ELSE ExecuteAction(advisor_action, optimal, va)
      [] strategy = "LAG" ->
            IF advisor_action = "call" /\ rnd.draw < 40
            THEN ExecuteAction("raise", optimal, va)
            ELSE ExecuteAction(advisor_action, optimal, va)
      [] strategy = "NIT" ->
            IF confidence < 70
            THEN IF va.call = 0 THEN <<"call", 0>> ELSE <<"fold", 0>>
            ELSE ExecuteAction(advisor_action, optimal, va)
      [] strategy = "TAG" ->
            IF advisor_action = "call" /\ confidence > 70 /\ rnd.draw < 30
            THEN ExecuteAction("raise", optimal, va)
            ELSE ExecuteAction(advisor_action, optimal, va)
      [] OTHER -> ExecuteAction(advisor_action, optimal, va)

\* InstrumentedBot._fallback_action
FallbackAction(va) == IF va.call = 0 THEN <<"call", 0>> ELSE <<"fold", 0>>

\* InstrumentedBot.declare_action up to the return value: <<action, amount,
\* advisor_action>>.  advice.ok is FALSE when the request raises;
\* advice.confidence is -1 when the confidence string does not parse, which
\* raises after advisor_action has been set.
DeclareAction(strategy, street, va, advice, rnd) ==
    IF street = "preflop"
    THEN LET r == PreflopAction(strategy, va, rnd) IN <<r[1], r[2], "None">>
    ELSE IF ~advice.ok
         THEN LET r == FallbackAction(va) IN <<r[1], r[2], "None">>
         ELSE IF advice.confidence = -1
         THEN LET r == FallbackAction(va) IN <<r[1], r[2], advice.action>>
         ELSE LET r == ApplyStrategy(strategy, advice.action, advice.confidence,
                                     advice.optimal, va, rnd)
              IN  <<r[1], r[2], advice.action>>

\* InstrumentedBot._record_action on the shared collector
RecordAction(c, uuid, street, action, amount, advisor_action) ==
    record_action(c, uuid, street, action, amount, advisor_action)

(***************************************************************************)
(* Specification of a comprehensive session: run_comprehensive_test with   *)
(* two bots and MaxSessionHands rounds.  The engine sends every bot the    *)
(* round start, asks for at most MaxSessionActions actions in the session, *)
(* announces the later streets, and after the last round the runner        *)
(* registers the players with the collector.  session.declared is the      *)
(* history of what declare_action returned: <<round, uuid, street, action, *)
(* amount>>.                                                               *)
(***************************************************************************)
MaxSessionHands == 2
MaxSessionActions == 2

\* initial_stack of run_comprehensive_test
SessionInitialStack == 10000

\* strategies handed to the two bots; names are strategy_seat
SessionRosters ==
    { <<Seat("u1", "TAG_1", "TAG"), Seat("u2", "LAG_2", "LAG")>>,
      <<Seat("u1", "GTO_1", "GTO"), Seat("u2", "FISH_2", "FISH")>>,
      <<Seat("u1", "NIT_1", "NIT"), Seat("u2", "MANIAC_2", "MANIAC")>>,
      <<Seat("u1", "RANDOM_1", "RANDOM"), Seat("u2", "TAG_2", "TAG")>> }

Streets == <<"preflop", "flop", "turn", "river">>

\* what the engine offers at a decision
ValidActions == { [call |-> 0, min |-> 20, max |-> 200],
                  [call |-> 20, min |-> 40, max |-> 200],
                  [call |-> 40, min |-> -1, max |-> -1] }

\* outcomes of the request to the advisor
Advices ==
    { [ok |-> FALSE, action |-> "None", confidence |-> 0, optimal |-> -1],
      [ok |-> TRUE, action |-> "call", confidence |-> -1, optimal |-> -1] }
    \cup { [ok |-> TRUE, action |-> a, confidence |-> c, optimal |-> -1] :
              a \in {"fold", "call", "raise"}, c \in {50, 90} }
    \cup { [ok |-> TRUE, action |-> "bet", confidence |-> 90, optimal |-> 100] }

\* outcomes of the random draws of one decision
SessionDraws ==
    { [draw |-> d, choice |-> "call", high |-> FALSE] : d \in {10, 50, 90} }
    \cup { [draw |-> 50, choice |-> ch, high |-> h] :
              ch \in {"fold", "raise"}, h \in BOOLEAN }

\* the community cards of a street
BoardOf(street) ==
    CASE street = 2 -> <<"2c", "7d", "9h">>
      [] street = 3 -> <<"2c", "7d", "9h", "Ks">>
      [] OTHER -> <<"2c", "7d", "9h", "Ks", "As">>

InitSession ==
    /\ IdleExcept({"coll", "session"})
    /\ collector = HandDataCollectorInit
    /\ summary = NoSummary
    /\ roster \in SessionRosters
    /\ session = [phase |-> "play", round |-> 0, in_hand |-> FALSE, street |-> 1,
                  declared |-> <<>>]

\* receive_round_start_message of every bot
SessRoundStart ==
    /\ session.phase = "play"
    /\ ~session.in_hand
    /\ session.round < MaxSessionHands
    /\ collector' = record_hole_cards(
                        record_hole_cards(collector, roster[1].uuid, <<"As", "Kd">>),
                        roster[2].uuid, <<"Qh", "Jc">>)
    /\ session' = [session EXCEPT !.round = @ + 1, !.in_hand = TRUE, !.street = 1]
    /\ UNCHANGED <<roster, summary, notSession>>

\* receive_street_start_message of every bot for a street after the first
SessStreetStart ==
    /\ session.phase = "play"
    /\ session.in_hand
    /\ session.street < Len(Streets)
    /\ collector' = record_board(record_board(collector, BoardOf(session.street + 1)),
                                 BoardOf(session.street + 1))
    /\ session' = [session EXCEPT !.street = @ + 1]
    /\ UNCHANGED <<roster, summary, notSession>>

\* declare_action of one bot
SessDeclare ==
    /\ session.phase = "play"
    /\ session.in_hand
    /\ Len(session.declared) < MaxSessionActions
    /\ \E i \in 1..Len(roster), va \in ValidActions, advice \in Advices,
          rnd \in SessionDraws :
          LET street == Streets[session.street]
              r == DeclareAction(roster[i].strategy, street, va, advice, rnd)
          IN  /\ street = "preflop" => advice = [ok |-> FALSE, action |-> "None",
                                                 confidence |-> 0, optimal |-> -1]
              /\ collector' = RecordAction(collector, roster[i].uuid, street,
                                           r[1], r[2], r[3])
              /\ session' = [session EXCEPT !.declared =
                                Append(@, <<session.round, roster[i].uuid, street,
                                            r[1], r[2]>>)]
    /\ UNCHANGED <<roster, summary, notSession>>

\* receive_round_result_message of every bot
SessRoundResult ==
    /\ session.phase = "play"
    /\ session.in_hand
    /\ session' = [session EXCEPT !.in_hand = FALSE]
    /\ UNCHANGED <<collector, roster, summary, notSession>>

\* start_poker returns and the players are registered
SessFinish ==
    /\ session.phase = "play"
    /\ ~session.in_hand
    /\ session.round = MaxSessionHands
    /\ collector' = register_player(
                        register_player(collector, roster[1].uuid, roster[1].name,
                                        roster[1].strategy, 0, SessionInitialStack),
                        roster[2].uuid, roster[2].name, roster[2].strategy, 1,
                        SessionInitialStack)
    /\ session' = [session EXCEPT !.phase = "done"]
    /\ UNCHANGED <<roster, summary, notSession>>

NextSession == SessRoundStart \/ SessStreetStart \/ SessDeclare \/ SessRoundResult
               \/ SessFinish

SpecSession == InitSession /\ [][NextSession]_vars

\* C15: in a comprehensive session every action a bot's declare_action
\* returned is a BettingAction of the record of its hand, in the open
\* record or in the collector's log, and when the session is over the log
\* holds one record per round played.
C15_EveryActionCaptured ==
    /\ \A d \in 1..Len(session.declared) :
          LET e == session.declared[d]
              recs == {collector.hands[j] : j \in 1..Len(collector.hands)}
                      \cup (IF collector.current_hand = NoHand THEN {}
                            ELSE {collector.current_hand})
          IN  \E h \in recs :
                 /\ h.hand_id = e[1]
                 /\ \E i \in 1..Len(h.players) :
                       \E k \in 1..Len(h.players[i].actions) :
                          /\ h.players[i].actions[k].street = e[3]
                          /\ h.players[i].actions[k].action = e[4]
                          /\ h.players[i].actions[k].amount = e[5]
    /\ session.phase = "done" => Len(collector.hands) = session.round

\* C15 witness: the session is over, its rounds were played and actions
\* were returned on two streets, and the collector's log is empty with no
\* record open.
C15_Witness ==
    /\ session.phase = "done"
    /\ session.round = MaxSessionHands
    /\ Len(session.declared) = MaxSessionActions
    /\ session.declared[1][3] = "preflop"
    /\ session.declared[2][3] = "flop"
    /\ session.declared[2][4] = "raise"
    /\ Len(collector.player_info) = Len(roster)
    /\ collector.hands = <<>>
    /\ collector.current_hand = NoHand

(***************************************************************************)
(* TRAJECTORY BOT DECISIONS (TrajectoryAnalyzer.py).  valid_actions,       *)
(* draws and confidence are as for the comprehensive runner; optimal is    *)
(* sizing["optimal"], -1 when the advice has none.                         *)
(***************************************************************************)
\* TrajectoryBot._preflop_action
TrajPreflopAction(strategy, va, draw) ==
    LET can_raise == va.min > 0 /\ va.max >= va.min
    IN  IF va.call = 0 THEN <<"call", 0>>
        ELSE CASE strategy = "MANIAC" ->
                    IF can_raise THEN <<"raise", Min2(va.min * 3, va.max)>>
                    ELSE <<"call", va.call>>
               [] strategy = "NIT" ->
                    IF va.call <= 10 THEN <<"call", va.call>> ELSE <<"fold", 0>>
               [] strategy = "FISH" -> <<"call", va.call>>
               [] strategy = "LAG" ->
                    IF draw < 40 /\ can_raise THEN <<"raise", va.min>>
                    ELSE <<"call", va.call>>
               [] OTHER -> IF va.call <= 30 THEN <<"call", va.call>> ELSE <<"fold", 0>>

\* TrajectoryBot._execute
TrajExecute(action, optimal, va) ==
    CASE action = "fold" -> <<"fold", 0>>
      [] action \in {"call", "check"} -> <<"call", va.call>>
      [] action \in {"raise", "bet"} ->
            IF va.min > 0 /\ va.max >= va.min
            THEN <<"raise", Max2(va.min, Min2(IF optimal = -1 THEN va.min ELSE optimal,
                                               va.max))>>
            ELSE <<"call", va.call>>
      [] OTHER -> <<"fold", 0>>

\* TrajectoryBot._apply_strategy
TrajApplyStrategy(strategy, advisor_action, confidence, optimal, va, draw) ==
    LET can_raise == va.min > 0 /\ va.max >= va.min
        execute == TrajExecute(advisor_action, optimal, va)
    IN  CASE strategy = "MANIAC" ->
                IF draw < 70 /\ can_raise
                THEN <<"raise", Min2(IF optimal = -1 THEN va.min ELSE optimal, va.max)>>
                ELSE execute
          [] strategy = "FISH" ->
                IF advisor_action \in {"raise", "bet"} THEN <<"call", va.call>>
                ELSE execute
          [] strategy = "NIT" ->
                IF confidence < 70
                THEN IF va.call = 0 THEN <<"call", 0>> ELSE <<"fold", 0>>
                ELSE execute
          [] strategy = "LAG" ->
                IF advisor_action = "call" /\ draw < 40 /\ can_raise
                THEN <<"raise", va.min>>
                ELSE execute
          [] OTHER -> execute

\* TrajectoryBot._fallback
TrajFallback(va) == IF va.call = 0 THEN <<"call", 0>> ELSE <<"fold", 0>>

\* TrajectoryBot.declare_action; board is the number of community cards and
\* advice.ok is FALSE when anything in the try block raises
TrajDeclareAction(strategy, board, va, advice, draw) ==
    IF board < 3 THEN TrajPreflopAction(strategy, va, draw)
    ELSE IF ~advice.ok THEN TrajFallback(va)
    ELSE TrajApplyStrategy(strategy, advice.action, advice.confidence, advice.optimal,
                           va, draw)

(***************************************************************************)
(* Specification of the trajectory bot's decisions: a bot of any strategy  *)
(* is asked for up to MaxBotDecisions actions, before and after the flop,  *)
(* with any offer of the engine, any answer of the advisor and any draw.   *)
(* trajRun keeps the strategy and the latest question with its answer.     *)
(***************************************************************************)
MaxBotDecisions == 2

BotStrategies == {"TAG", "LAG", "GTO", "FISH", "NIT", "MANIAC"}

\* answers of the advisor: a failure, and recommendations with a sizing
\* hint that is absent, below the minimum raise, inside the range or above
\* the maximum
BotAdvices ==
    { [ok |-> FALSE, action |-> "None", confidence |-> 0, optimal |-> -1] }
    \cup { [ok |-> TRUE, action |-> a, confidence |-> c, optimal |-> o] :
              a \in {"fold", "call", "check", "raise", "bet", "allin"},
              c \in {50, 90}, o \in {-1, 10, 100, 500} }

NoAnswer == [made |-> FALSE]

InitBot ==
    /\ IdleExcept({"traj"})
    /\ traj = PlayerTrajectoryInit(DefaultInitialStack)
    /\ trajBot = TrajectoryBotInit
    /\ \E strategy \in BotStrategies :
          trajRun = [in_round |-> TRUE, metrics_runs |-> 0, strategy |-> strategy,
                     asked |-> 0, answer |-> NoAnswer]

\* declare_action of the bot
BotDeclare ==
    /\ trajRun.asked < MaxBotDecisions
    /\ \E board \in {0, 3}, va \in ValidActions, advice \in BotAdvices,
          draw \in {10, 50, 90} :
          LET r == TrajDeclareAction(trajRun.strategy, board, va, advice, draw)
          IN  /\ board = 0 => advice = [ok |-> FALSE, action |-> "None",
                                        confidence |-> 0, optimal |-> -1]
              /\ trajRun' = [trajRun EXCEPT
                                !.asked = @ + 1,
                                !.answer = [made |-> TRUE, board |-> board, va |-> va,
                                            advice |-> advice, draw |-> draw,
                                            action |-> r[1], amount |-> r[2]]]
    /\ UNCHANGED <<traj, trajBot, notTraj>>

NextBot == BotDeclare

SpecBot == InitBot /\ [][NextBot]_vars

\* C25: every ("raise", amount) that declare_action returns, for every
\* strategy, sizing hint and draw, has min <= amount <= max of the raise
\* offered; every call returns the call amount offered and every fold 0.
C25_ReturnedAmountsLegal ==
    trajRun.answer.made =>
        LET a == trajRun.answer IN
        /\ a.action \in {"fold", "call", "raise"}
        /\ a.action = "raise" => (a.va.min <= a.amount /\ a.amount <= a.va.max)
        /\ a.action = "call" => a.amount = a.va.call
        /\ a.action = "fold" => a.amount = 0

\* C25 witness: a MANIAC bot advised with a sizing hint below the minimum
\* raise returned a raise of the hinted amount.
C25_Witness ==
    /\ trajRun.answer.made
    /\ trajRun.strategy = "MANIAC"
    /\ trajRun.answer.advice.ok
    /\ trajRun.answer.advice.optimal > 0
    /\ trajRun.answer.action = "raise"
    /\ trajRun.answer.amount = trajRun.answer.advice.optimal
    /\ trajRun.answer.amount < trajRun.answer.va.min

(***************************************************************************)
(* Specification of the test loop: run_omaha_test with RunSeats players    *)
(* and a target of MaxRunHands hands.  The dealer asks a player for at     *)
(* most MaxHandDecisions decisions in a hand (afterwards it reports an     *)
(* action index no player has) and raises in one iteration of a hand at    *)
(* most.  The first LongHands hands of a run may last until the safety     *)
(* limit; in the later ones the dealer ends the hand within MaxQuickSteps  *)
(* further steps.                                                          *)
(***************************************************************************)
MaxRunHands == 4
MaxHandDecisions == 1
MaxQuickSteps == 1
LongHands == 1

RunSeats == {2, 3}
RunDeal == CHOOSE deal \in SampleDeals : deal[1].rank = "Q"
Wins == {-2, 0, 1}

InitRun ==
    /\ IdleExcept({"run"})
    /\ blindsLog = <<>>
    /\ \E num_p \in RunSeats : run = RunSetup(4, num_p, MaxRunHands, TRUE)

\* the head of the loop body and of play_hand: the blinds rotate, a dealer
\* is made with them, dealer.reset() returns and every player starts a new
\* hand
RunStartHand ==
    /\ run.phase = "loop"
    /\ run.hands_done < run.target
    /\ LET blinds == RotateBlinds(run.num_p, run.hands_done)
       IN  /\ run' = [run EXCEPT !.phase = "hand", !.blinds = blinds, !.steps = 0,
                                 !.decided = 0, !.raised = 0,
                                 !.players = [i \in 1..Len(@) |-> new_hand(@[i])]]
           /\ blindsLog' = Append(blindsLog, [hand_num |-> run.hands_done,
                                              blinds |-> blinds])
    /\ UNCHANGED notRun

\* the loop body when dealer.reset() raises: play_hand raises before any
\* player is touched and the except clause of the loop counts the hand
RunResetRaises ==
    /\ run.phase = "loop"
    /\ run.hands_done < run.target
    /\ LET blinds == RotateBlinds(run.num_p, run.hands_done)
       IN  /\ run' = SkipBrokenHand([run EXCEPT !.blinds = blinds, !.steps = 0,
                                                !.decided = 0, !.raised = 1])
           /\ blindsLog' = Append(blindsLog, [hand_num |-> run.hands_done,
                                              blinds |-> blinds])
    /\ UNCHANGED notRun

\* the player the dealer's action index names decides; with an index no
\* player has the bet is obs['call'] and no player is touched
AskPlayer(r, asked, rnd) ==
    IF asked
    THEN LET seat == (r.hands_done + 2 + r.steps) % r.num_p
             ob == Observation(2, 3, 200, <<4, 7>>, HoleOf(RunDeal, r.variant),
                               0, r.num_p)
             d == Decide(r.players[seat + 1], ob, 0, r.num_p, r.hands_done,
                         NoOracle, rnd)
         IN  [r EXCEPT !.players[seat + 1] = d.p, !.decided = @ + 1]
    ELSE r

\* the draws a decision of the player to act consumes
DrawsUsed(r, asked, rnd) ==
    IF asked
    THEN LET seat == (r.hands_done + 2 + r.steps) % r.num_p
             ob == Observation(2, 3, 200, <<4, 7>>, HoleOf(RunDeal, r.variant),
                               0, r.num_p)
         IN  Decide(r.players[seat + 1], ob, 0, r.num_p, r.hands_done,
                    NoOracle, rnd).used
    ELSE 0

\* one iteration of play_hand's loop and, when it is the last, the rest of
\* the body of run_omaha_test's loop.  outcome is what the dealer does:
\*   "on"         step returns, the hand goes on
\*   "done"       step returns with all(done)
\*   "retry_on"   step raises, the retry with obs['call'] returns
\*   "retry_done" the same, and the hand is over
\*   "break"      step raises and the retry raises too
\* and win is what the stacks of the last observation say.
RunStep ==
    /\ run.phase = "hand"
    /\ run.steps < max_steps(run.num_p)
    /\ \E asked \in BOOLEAN, outcome \in {"on", "done", "retry_on", "retry_done", "break"} :
          LET errors == CASE outcome \in {"retry_on", "retry_done"} -> 1
                          [] outcome = "break" -> 2
                          [] OTHER -> 0
          IN  /\ asked => run.decided < MaxHandDecisions
              /\ errors > 0 => run.raised = 0
              /\ outcome \in {"on", "retry_on"} =>
                    (run.hands_done < LongHands \/ run.steps < MaxQuickSteps)
              /\ \E rnd \in (IF asked THEN DrawStreams ELSE {<<>>}) :
                    /\ \A i \in (DrawsUsed(run, asked, rnd) + 1)..Len(rnd) : rnd[i] = 0
                    /\ \E win \in (IF outcome \in {"done", "retry_done"}
                                     \/ (outcome = "break" /\ run.steps > 0)
                                  THEN Wins ELSE {0}) :
                          LET r == AskPlayer(run, asked, rnd)
                              stepped == [r EXCEPT !.steps = @ + 1, !.raised = @ + errors]
                              broken == [r EXCEPT !.raised = @ + errors]
                          IN  run' = CASE outcome \in {"on", "retry_on"} -> stepped
                                       [] outcome \in {"done", "retry_done"} ->
                                             HandPlayed(stepped, ProfitsOf(stepped, win))
                                       [] OTHER -> HandPlayed(broken, ProfitsOf(broken, win))
    /\ UNCHANGED <<blindsLog, notRun>>

\* the safety limit is reached: play_hand returns with the last observation
RunStepLimit ==
    /\ run.phase = "hand"
    /\ run.steps >= max_steps(run.num_p)
    /\ \E win \in Wins : run' = HandPlayed(run, ProfitsOf(run, win))
    /\ UNCHANGED <<blindsLog, notRun>>

\* the loop is left: aggregation and results
RunFinish ==
    /\ run.phase = "loop"
    /\ run.hands_done >= run.target
    /\ run' = [run EXCEPT !.phase = "done", !.results = OmahaResults(run.players)]
    /\ UNCHANGED <<blindsLog, notRun>>

NextRun == RunStartHand \/ RunResetRaises \/ RunStep \/ RunStepLimit \/ RunFinish

SpecRun == InitRun /\ [][NextRun]_vars

(***************************************************************************)
(* Specification of the loop's progress: run_omaha_test at a table of two  *)
(* with every target up to MaxLoopTarget.  The interpreter runs the        *)
(* program on, so a step that can be taken is taken eventually.            *)
(***************************************************************************)
MaxLoopTarget == 2

InitLoop ==
    /\ IdleExcept({"run"})
    /\ blindsLog = <<>>
    /\ \E target \in 0..MaxLoopTarget : run = RunSetup(4, 2, target, TRUE)

SpecLoop == InitLoop /\ [][NextRun]_vars /\ WF_vars(NextRun)

Samples(p) == <<p.hands, p.profit, p.wins, p.per_hand>>

\* C12: when the engine has raised in a hand (dealer.reset or dealer.step),
\* the run goes on with the next hand and the hand changes no player's
\* per_hand, profit, wins or hands.
C12_FailedHandExcluded ==
    [][(run.phase \in {"loop", "hand"} /\ run'.phase = "loop" /\ run'.raised > 0) =>
          /\ run'.hands_done = run.hands_done + 1
          /\ \A i \in 1..run.num_p : Samples(run'.players[i]) = Samples(run.players[i])]_vars

\* C12 witness: both step calls of the first iteration of the first hand
\* raised, and the hand is in every player's samples with a profit of 0.
C12_Witness ==
    /\ run.phase = "loop"
    /\ run.hands_done = 1
    /\ run.raised = 2
    /\ run.steps = 0
    /\ \A i \in 1..run.num_p :
          run.players[i].hands = 1 /\ run.players[i].per_hand = <<0>>

\* the seats that post the small and the big blind of a logged hand
SmallBlindSeats(entry) == {i - 1 : i \in {j \in 1..Len(entry.blinds) : entry.blinds[j] = 1}}
BigBlindSeats(entry) == {i - 1 : i \in {j \in 1..Len(entry.blinds) : entry.blinds[j] = 2}}

\* C10: the k-th hand started (k from 0) has the small blind on seat
\* k mod N and the big blind on seat (k+1) mod N, broken hands included;
\* the blinds move by one seat from a hand to the next; over any N
\* consecutive hands every seat posts each blind exactly once and
\* OmahaPlayer.position gives it every relative position index exactly once.
C10_BlindsRotate ==
    run.phase # "none" =>
        LET N == run.num_p
            Hands == 1..Len(blindsLog)
        IN  /\ \A h \in Hands :
                  /\ blindsLog[h].hand_num = h - 1
                  /\ SmallBlindSeats(blindsLog[h]) = {(h - 1) % N}
                  /\ BigBlindSeats(blindsLog[h]) = {h % N}
            /\ \A h \in Hands \ {1} :
                  \A seat \in 0..(N - 1) :
                      /\ seat \in SmallBlindSeats(blindsLog[h - 1])
                            => (seat + 1) % N \in SmallBlindSeats(blindsLog[h])
                      /\ seat \in BigBlindSeats(blindsLog[h - 1])
                            => (seat + 1) % N \in BigBlindSeats(blindsLog[h])
            /\ \A first \in Hands :
                  first + N - 1 <= Len(blindsLog) =>
                      LET Window == first..(first + N - 1) IN
                      \A seat \in 0..(N - 1) :
                          /\ Cardinality({h \in Window :
                                 seat \in SmallBlindSeats(blindsLog[h])}) = 1
                          /\ Cardinality({h \in Window :
                                 seat \in BigBlindSeats(blindsLog[h])}) = 1
                          /\ \A idx \in 0..(N - 1) :
                                 Cardinality({h \in Window :
                                     rotated_idx(seat, N, blindsLog[h].hand_num) = idx}) = 1

\* C10 witness: at a table of three, more hands than seats were started and
\* one of the first three was broken.
C10_Witness ==
    /\ run.phase = "loop"
    /\ run.num_p = 3
    /\ Len(blindsLog) = 4
    /\ run.hands_done = 4
    /\ run.players[1].hands < 4
    /\ SmallBlindSeats(blindsLog[4]) = {0}

\* C27: the position label of every seat agrees with the blinds posted for
\* the hand: in every hand started, OmahaPlayer.position(N, k) labels the
\* seat posting the small blind SB and the seat posting the big blind BB.
C27_LabelsAgreeWithBlinds ==
    \A h \in 1..Len(blindsLog) :
        \A seat \in 0..(run.num_p - 1) :
            /\ seat \in SmallBlindSeats(blindsLog[h])
                  => position(seat, run.num_p, blindsLog[h].hand_num) = "SB"
            /\ seat \in BigBlindSeats(blindsLog[h])
                  => position(seat, run.num_p, blindsLog[h].hand_num) = "BB"

\* C27 witness: at a table of three the second hand is being played; seat 1
\* posts its small blind and is labelled BTN, seat 2 posts the big blind and
\* is labelled SB.
C27_Witness ==
    /\ run.phase = "hand"
    /\ run.num_p = 3
    /\ run.hands_done = 1
    /\ run.blinds = <<0, 1, 2>>
    /\ position(1, 3, 1) = "BTN"
    /\ position(2, 3, 1) = "SB"
    /\ position(0, 3, 1) = "BB"

\* C30: after every iteration of the hand loop, for every player, hands is
\* the length of per_hand, profit is the sum of per_hand, wins is the number
\* of strictly positive entries of per_hand and vpip_hands is at most hands,
\* whatever mix of completed and aborted hands has occurred.
C30_TalliesConsistent ==
    run.phase \in {"loop", "done"} =>
        \A i \in 1..run.num_p :
            LET p == run.players[i] IN
            /\ p.hands = Len(p.per_hand)
            /\ p.profit = SeqSum(p.per_hand)
            /\ p.wins = Cardinality({k \in 1..Len(p.per_hand) : p.per_hand[k] > 0})
            /\ p.vpip_hands <= p.hands

\* C30 witness: three iterations are over, one of them aborted by the
\* engine; a player has entered both hands it played voluntarily and has
\* won one of them and lost the other.
C30_Witness ==
    /\ run.phase = "loop"
    /\ run.hands_done = 3
    /\ \E i \in 1..run.num_p :
          LET p == run.players[i] IN
          /\ p.hands = 2
          /\ p.vpip_hands = 2
          /\ p.wins = 1
          /\ p.profit < 0
          /\ \E k \in 1..2 : p.per_hand[k] < 0

(***************************************************************************)
(* Specification of the sample-size calculation: one call of               *)
(* calculate_sample_size_needed with arguments written as decimal          *)
(* literals (tenths for the effect and the deviation, hundredths for the   *)
(* confidence and the power).                                              *)
(***************************************************************************)
EffectTenths == {10, 20, 25, 50}
StdDevTenths == {500, 1000, 1200}
ConfidenceHundredths == {90, 95, 99}
PowerHundredths == {70, 80, 90}

InitSample ==
    /\ IdleExcept({"sample"})
    /\ sampleOut = NoReport
    /\ \E effect \in EffectTenths, std_dev \in StdDevTenths,
          confidence \in ConfidenceHundredths, power \in PowerHundredths :
          sample = [made |-> TRUE, effect |-> effect, std_dev |-> std_dev,
                    confidence |-> confidence, power |-> power]

SampleCall ==
    /\ sampleOut = NoReport
    /\ \E n \in calculate_sample_size_needed(FloatLiteral(sample.effect, 10),
                                             FloatLiteral(sample.std_dev, 10),
                                             FloatLiteral(sample.confidence, 100),
                                             FloatLiteral(sample.power, 100)) :
          sampleOut' = [made |-> TRUE, n |-> n]
    /\ UNCHANGED <<sample, notSample>>

NextSample == SampleCall

SpecSample == InitSample /\ [][NextSample]_vars

\* the ceiling of the rational a
RatCeil(a) == -((-a[1]) \div a[2])

\* the closed form 2 * ((z_conf + z_power) * stdDev / effect)^2 in exact
\* arithmetic, for z-values in hundredths
ClosedForm(z_conf, z_power, std_dev, effect) ==
    LET ratio == Rat((z_conf + z_power) * std_dev, 100 * effect)
        sq == RatSquare(ratio)
    IN  Rat(2 * sq[1], sq[2])

ZConf == (95 :> 196) @@ (99 :> 258)
ZPower == (80 :> 84) @@ (90 :> 128)

\* C7: for a confidence of 0.95 or 0.99 and a power of 0.80 or 0.90 the
\* call returns the ceiling of 2*((z_conf + z_power)*stdDev/effect)^2, with
\* z_conf 1.96 or 2.58 and z_power 0.84 or 1.28; for effect 5, stdDev 100,
\* confidence 0.95 and power 0.80 that is 6272.
C7_ClosedFormCeiling ==
    /\ RatCeil(ClosedForm(196, 84, 1000, 50)) = 6272
    /\ (sampleOut # NoReport /\ sample.confidence \in DOMAIN ZConf
                             /\ sample.power \in DOMAIN ZPower) =>
          sampleOut.n = RatCeil(ClosedForm(ZConf[sample.confidence], ZPower[sample.power],
                                           sample.std_dev, sample.effect))

\* C7: the documented example: effect 5, stdDev 100, confidence 0.95 and
\* power 0.80 return 6272.
C7_DefaultIs6272 ==
    (sampleOut # NoReport /\ sample.effect = 50 /\ sample.std_dev = 1000
                          /\ sample.confidence = 95 /\ sample.power = 80) =>
        sampleOut.n = 6272

\* C7 witness: effect 1, stdDev 50, confidence 0.99, power 0.90, where the
\* closed form is the integer 74498, returned 74499.
C7_Witness ==
    /\ sampleOut # NoReport
    /\ sample.effect = 10 /\ sample.std_dev = 500
    /\ sample.confidence = 99 /\ sample.power = 90
    /\ RatCeil(ClosedForm(258, 128, 500, 10)) = 74498
    /\ sampleOut.n = 74499

(***************************************************************************)
(* Specification of the scorer: hole cards are dealt one by one, in deck   *)
(* order (every set of at most HoleMax cards of the deck is reached), and  *)
(* the hand is scored after each card.                                     *)
(***************************************************************************)
InitScore ==
    /\ IdleExcept({"score"})
    /\ hole = {}
    /\ scoreOut = score_omaha_hand({})

DealHole(card) ==
    /\ Cardinality(hole) < HoleMax
    /\ \A c \in hole : CardIndex(c) < CardIndex(card)
    /\ hole' = hole \cup {card}
    /\ scoreOut' = score_omaha_hand(hole')
    /\ UNCHANGED notScore

NextScore == \E card \in Deck : DealHole(card)

SpecScore == InitScore /\ [][NextScore]_vars

(***************************************************************************)
(* Claims about the scorer (checked under SpecScore)                       *)
(***************************************************************************)
\* C4: every hand of 2 to 6 hole cards scores within [0, 100], and the
\* empty hand scores exactly 25.
C4_ScoreRange ==
    /\ Cardinality(hole) \in 2..HoleMax =>
          /\ 0 <= scoreOut
          /\ scoreOut <= 100 * ScoreScale
    /\ hole = {} => scoreOut = 25 * ScoreScale

\* C4 witness: a six-card hand is scored, above the score of the empty hand.
C4_Witness ==
    /\ Cardinality(hole) = HoleMax
    /\ scoreOut > 25 * ScoreScale
    /\ scoreOut <= 100 * ScoreScale

Aces(cards) == {c \in cards : card_rank_num(c) = 14}

\* two Aces and two lower cards that share a suit with each other
TwoAcesTwoSuitedLower(cards) ==
    /\ Cardinality(cards) = 4
    /\ Cardinality(Aces(cards)) = 2
    /\ \A c, d \in cards \ Aces(cards) : card_suit_char(c) = card_suit_char(d)

\* an Ace shares its suit with another hole card
AcesSuited(cards) ==
    \E a \in Aces(cards) : \E c \in cards \ {a} : card_suit_char(a) = card_suit_char(c)

\* the hands of the same ranks, of the same shape, with the Aces unsuited
UnsuitedVariants(cards) ==
    LET Suits == {SuitChars[i] : i \in 1..4}
        lower == cards \ Aces(cards)
    IN  {[rank : {"A"}, suit : {s1, s2}] \cup {[rank |-> c.rank, suit |-> t] : c \in lower} :
            <<s1, s2, t>> \in {x \in Suits \X Suits \X Suits :
                                  x[1] # x[2] /\ x[1] # x[3] /\ x[2] # x[3]}}

\* C5: a hand of two Aces and two lower cards of one suit in which an Ace
\* is suited scores at least as much as the same ranks with the Aces
\* unsuited.
C5_SuitedAcesNotLower ==
    (TwoAcesTwoSuitedLower(hole) /\ AcesSuited(hole)) =>
        \A v \in UnsuitedVariants(hole) : scoreOut >= score_omaha_hand(v)

\* C5 witness: such a hand is scored, strictly above an unsuited variant.
C5_Witness ==
    /\ TwoAcesTwoSuitedLower(hole)
    /\ AcesSuited(hole)
    /\ \E v \in UnsuitedVariants(hole) : scoreOut > score_omaha_hand(v)

====
